---------------------------- MODULE Spec2Model ----------------------------
(* A model of the BI_B2MM data pipeline: the formatters of core/formatters.py, *)
(* the identifier extraction and load_datasets of core/data_service.py with   *)
(* its cache, load_data of app.py, and render_kpis of pages/1_Painel_Geral.py, *)
(* and the runs of app.py and of the two pages of one session: require_auth  *)
(* of core/auth.py, the caches of the process and the refresh buttons.       *)
(*                                                                          *)
(* Conventions.                                                             *)
(*   - A Python str is a sequence of one-character strings.                  *)
(*   - A nullable value (None, NaN, NaT) is a sequence of length 0 or 1:     *)
(*     Null is << >> and Some(v) is << v >>.                                 *)
(*   - A float is an exact rational. A currency amount is [num, den] in     *)
(*     lowest decimal terms; a duration in hours is kept as its numerator    *)
(*     over SecPerHour (IEEE rounding is not modelled).                      *)
(*   - A timestamp is a number of seconds since the model's epoch.           *)
EXTENDS Integers, Sequences, FiniteSets, TLC

VARIABLES
    cur_form,      \* the amount a currency entry was written from (Null: free text)
    cur_entry,     \* one entry of the Series handed to normalize_currency
    cur_result,    \* the entry of the Series normalize_currency returns
    cur_pc,        \* "input" before the call, "done" after
    title,         \* the argument of _extract_oc_identifier (Null: not a str)
    oc_id,         \* what _extract_oc_identifier returned
    id_pc,         \* "input" before the call, "done" after
    fmt_hours,     \* the argument of format_time_in_stage (Null: NaN or None)
    fmt_out,       \* the string format_time_in_stage returned
    fmt_pc,        \* "input" before the call, "done" after
    date_form,     \* the date a cell of a date column was written from (Null: free text)
    date_text,     \* one cell of a date column, as the sheet holds it
    date_out,      \* what pd.to_datetime made of it
    date_pc,       \* "input" before the call, "done" after
    kpi_table,     \* the filtered table handed to render_kpis
    kpi_out,       \* the KPI cards render_kpis displayed, label then value
    kpi_pc,        \* "input" before the call, "done" after
    columns,       \* the header row of sheet1: the names of its columns
    sheet,         \* the data rows of sheet1 of "BI_B2", as get_all_values gives them
    clock,         \* the wall clock
    current_time,  \* the clock as load_datasets read it in its last run
    df,            \* the normalized table load_datasets returned
    df_timeline,   \* the timeline table load_datasets returned
    load_pc,       \* "start" before any run, then where the last run left load_datasets
    loader,        \* the cached entry point the process calls: load_datasets or load_data
    cache,         \* the st.cache_data entry of the loader (Null: none)
    calls,         \* the number of calls of the loader so far
    num_fn,        \* the formatter applied to num_value ("none" before the call)
    num_value,     \* the number handed to format_currency or safe_percentage (Null: None or NaN)
    num_text,      \* the string the formatter returned
    num_back,      \* what normalize_currency made of num_text
    num_pc,        \* "input" before the call, "formatted", then "done"
    app_out,       \* what the app.py variant of an operation produced
    app_pc,        \* "input" before the app.py variant ran, "done" after
    session,       \* st.session_state['authenticated'] (Null: the key is absent)
    resource,      \* the st.cache_resource entry of get_gspread_client (Null: none)
    app_cache,     \* the st.cache_data entry of load_data of app.py (Null: none)
    reachable,     \* whether the credentials and Google Sheets answer at present
    page,          \* the page script the session is on
    view,          \* what the last run of the page displayed
    button,        \* whether the last run rendered the refresh button
    fetched,       \* whether the last run executed the body of load_datasets
    page_pc        \* "wait" for the user, or the run that is pending

cur_vars == << cur_form, cur_entry, cur_result, cur_pc >>
id_vars == << title, oc_id, id_pc >>
fmt_vars == << fmt_hours, fmt_out, fmt_pc >>
dt_vars == << date_form, date_text, date_out, date_pc >>
kpi_vars == << kpi_table, kpi_out, kpi_pc >>
load_vars == << columns, sheet, clock, current_time, df, df_timeline, load_pc >>
cache_vars == << loader, cache, calls >>
num_vars == << num_fn, num_value, num_text, num_back, num_pc >>
app_vars == << app_out, app_pc >>
page_vars == << session, resource, app_cache, reachable, page, view, button, fetched,
               page_pc >>
ui_vars == << num_vars, app_vars, page_vars >>
vars == << cur_vars, id_vars, fmt_vars, dt_vars, kpi_vars, load_vars, cache_vars,
           ui_vars >>

-----------------------------------------------------------------------------
(* Nullable values *)

Null == << >>

Some(v) == << v >>

IsNull(x) == x = << >>

-----------------------------------------------------------------------------
(* Bounds of the pipeline runs *)

MaxRows == 2
ClockStart == 90000
TickLen == 100000
MaxTicks == 1

-----------------------------------------------------------------------------
(* Python str operations on sequences of characters *)

Digits == {"0", "1", "2", "3", "4", "5", "6", "7", "8", "9"}

DigitVal(c) ==
    CASE c = "0" -> 0 [] c = "1" -> 1 [] c = "2" -> 2 [] c = "3" -> 3
      [] c = "4" -> 4 [] c = "5" -> 5 [] c = "6" -> 6 [] c = "7" -> 7
      [] c = "8" -> 8 [] c = "9" -> 9

DigitChar(d) ==
    CASE d = 0 -> "0" [] d = 1 -> "1" [] d = 2 -> "2" [] d = 3 -> "3"
      [] d = 4 -> "4" [] d = 5 -> "5" [] d = 6 -> "6" [] d = 7 -> "7"
      [] d = 8 -> "8" [] d = 9 -> "9"

\* str(n) of an int: its decimal digits, "-" first when negative.
RECURSIVE NatDigits(_)
NatDigits(n) ==
    IF n < 10 THEN << DigitChar(n) >>
    ELSE NatDigits(n \div 10) \o << DigitChar(n % 10) >>

ToDigits(n) == IF n < 0 THEN << "-" >> \o NatDigits(0 - n) ELSE NatDigits(n)

\* Whether pat occurs in s at position i (1-based).
OccursAt(s, pat, i) ==
    /\ i + Len(pat) - 1 <= Len(s)
    /\ \A k \in 1..Len(pat) : s[i + k - 1] = pat[k]

\* str.replace(pat, rep): every non-overlapping occurrence, left to right.
RECURSIVE StrReplaceFrom(_, _, _, _)
StrReplaceFrom(s, pat, rep, i) ==
    IF i > Len(s) THEN << >>
    ELSE IF OccursAt(s, pat, i)
         THEN rep \o StrReplaceFrom(s, pat, rep, i + Len(pat))
         ELSE << s[i] >> \o StrReplaceFrom(s, pat, rep, i + 1)

\* Replacing a single character drops it or maps it in place; a longer
\* pattern is scanned for.
StrReplace(s, pat, rep) ==
    IF Len(pat) = 1 /\ rep = << >> THEN SelectSeq(s, LAMBDA c : c # pat[1])
    ELSE IF Len(pat) = 1 /\ Len(rep) = 1
         THEN [k \in DOMAIN s |-> IF s[k] = pat[1] THEN rep[1] ELSE s[k]]
         ELSE StrReplaceFrom(s, pat, rep, 1)

\* re.sub of a one-character class: the characters of s that are in keep.
KeepChars(s, keep) == SelectSeq(s, LAMBDA c : c \in keep)

\* str(x) of a Series entry under astype(str): None becomes the text "None".
AsStr(x) == IF IsNull(x) THEN << "N", "o", "n", "e" >> ELSE x[1]

RECURSIVE Spaces(_)
Spaces(n) == IF n = 0 THEN << >> ELSE << " " >> \o Spaces(n - 1)

-----------------------------------------------------------------------------
(* pd.to_numeric(errors="coerce") on one string *)

Pow10(n) == CASE n = 0 -> 1 [] n = 1 -> 10 [] n = 2 -> 100 [] n = 3 -> 1000
              [] n = 4 -> 10000 [] n = 5 -> 100000 [] OTHER -> 1000000

RECURSIVE DigitsValue(_)
DigitsValue(ds) ==
    IF ds = << >> THEN 0
    ELSE DigitsValue(SubSeq(ds, 1, Len(ds) - 1)) * 10 + DigitVal(ds[Len(ds)])

\* A float value as a rational in lowest decimal terms.
RECURSIVE Canon(_, _)
Canon(num, den) ==
    IF den > 1 /\ num % 10 = 0 THEN Canon(num \div 10, den \div 10)
    ELSE [num |-> num, den |-> den]

\* The position of the first "." of s, or 0.
RECURSIVE DotPos(_, _)
DotPos(s, i) ==
    IF i > Len(s) THEN 0 ELSE IF s[i] = "." THEN i ELSE DotPos(s, i + 1)

\* An optional "-", digits with at most one ".", at least one digit; anything
\* else (the empty string included) does not parse and is coerced to NaN.
ToNumeric(s) ==
    LET neg  == s # << >> /\ s[1] = "-"
        body == IF neg THEN Tail(s) ELSE s
        dot  == DotPos(body, 1)
        ip   == IF dot = 0 THEN body ELSE SubSeq(body, 1, dot - 1)
        fp   == IF dot = 0 THEN << >> ELSE SubSeq(body, dot + 1, Len(body))
        ok   == /\ \A k \in 1..Len(ip) : ip[k] \in Digits
                /\ \A k \in 1..Len(fp) : fp[k] \in Digits
                /\ Len(ip) + Len(fp) >= 1
        mag  == DigitsValue(ip \o fp)
    IN  IF ~ok THEN Null
        ELSE Some(Canon(IF neg THEN 0 - mag ELSE mag, Pow10(Len(fp))))

-----------------------------------------------------------------------------
(* core/formatters.py: normalize_currency *)

\* The characters kept with the "-" left out of the character class.
CurrencyKeep_NoMinus == Digits \cup {",", "."}

CurrencyKeep == Digits \cup {",", ".", "-"}

\* CleanCurrency with the separators handled the other way round: "," dropped
\* as a grouping mark and "." kept as the decimal point.
CleanCurrency_DotDecimal(x) ==
    LET s0 == AsStr(x)
        s1 == StrReplace(s0, << "R", "$" >>, << >>)
        s2 == StrReplace(s1, << " " >>, << >>)
        s3 == KeepChars(s2, CurrencyKeep)
        s4 == StrReplace(s3, << "," >>, << >>)
    IN  s4

\* The cleaning chain of one entry, in the order the code applies it.
CleanCurrency(x) ==
    LET s0 == AsStr(x)
        s1 == StrReplace(s0, << "R", "$" >>, << >>)
        s2 == StrReplace(s1, << " " >>, << >>)
        s3 == KeepChars(s2, CurrencyKeep)
        s4 == StrReplace(s3, << "." >>, << >>)
        s5 == StrReplace(s4, << "," >>, << "." >>)
    IN  s5

normalize_currency_entry(x) == ToNumeric(CleanCurrency(x))

\* The Series is normalized entry by entry.
normalize_currency(series) ==
    [i \in DOMAIN series |-> normalize_currency_entry(series[i])]

-----------------------------------------------------------------------------
(* Inputs of normalize_currency *)

MaxPad == 1
MaxFreeLen == 4

CurAlphabet == {"R", "$", " ", "1", "0", ".", ",", "-", "x"}

\* Integer parts and cents of the well-formed amounts the model writes.
IntPool == {0, 7, 45, 987, 1000, 1234, 2000, 20500, 999999, 1234567}
DecPool == {0, 5, 10, 56, 80, 99}

RECURSIVE StringsUpTo(_, _)
StringsUpTo(alphabet, n) ==
    IF n = 0 THEN {<< >>}
    ELSE LET shorter == StringsUpTo(alphabet, n - 1)
         IN  shorter \cup {s \o << c >> : s \in shorter, c \in alphabet}

\* A well-formed amount: symbol or not, padding before the symbol, between
\* symbol and digits and after the digits, the integer part, grouped or not,
\* and the two decimal digits.
Forms ==
    [sym : BOOLEAN, lead : 0..MaxPad, mid : 0..MaxPad, trail : 0..MaxPad,
     int : IntPool, grouped : BOOLEAN, dec : DecPool]

\* The integer digits with a "." before every group of three from the right.
RECURSIVE Grouped(_)
Grouped(ds) ==
    IF Len(ds) <= 3 THEN ds
    ELSE Grouped(SubSeq(ds, 1, Len(ds) - 3)) \o << "." >>
         \o SubSeq(ds, Len(ds) - 2, Len(ds))

RenderForm(f) ==
    Spaces(f.lead)
    \o (IF f.sym THEN << "R", "$" >> ELSE << >>)
    \o Spaces(f.mid)
    \o (IF f.grouped THEN Grouped(ToDigits(f.int)) ELSE ToDigits(f.int))
    \o << ",", DigitChar(f.dec \div 10), DigitChar(f.dec % 10) >>
    \o Spaces(f.trail)

\* The number a well-formed amount denotes, in cents.
FormCents(f) == f.int * 100 + f.dec

-----------------------------------------------------------------------------
(* The header of the sheet. "Titulo" and "Estagio" stand for the columns *)
(* 'Título' and 'Estágio'.                                                *)

value_cols == {"Valor", "Valor Rec.", "Valor fechamento", "Valor rec. fechamento"}

date_cols == {"Data de abertura", "Data fechamento"}

\* The columns load_datasets reads with no test of their presence.
RequiredColumns == date_cols \cup {"Titulo", "Estagio"}

\* The header of a sheet with every column the pipeline knows.
AllColumns == value_cols \cup {"Prob %"} \cup RequiredColumns

-----------------------------------------------------------------------------
(* The state of each part of the program while a specification does not *)
(* run it                                                                *)

IdleCurrency ==
    /\ cur_form = Null
    /\ cur_entry = Null
    /\ cur_result = Null
    /\ cur_pc = "idle"

IdleIdent ==
    /\ title = Null
    /\ oc_id = Null
    /\ id_pc = "idle"

IdleFormat ==
    /\ fmt_hours = Null
    /\ fmt_out = << >>
    /\ fmt_pc = "idle"

IdleDates ==
    /\ date_form = Null
    /\ date_text = << >>
    /\ date_out = Null
    /\ date_pc = "idle"

IdleKpis ==
    /\ kpi_table = << >>
    /\ kpi_out = << >>
    /\ kpi_pc = "idle"

IdleCache ==
    /\ loader = "load_datasets"
    /\ cache = Null
    /\ calls = 0

IdleLoad ==
    /\ columns = AllColumns
    /\ sheet = << >>
    /\ clock = ClockStart
    /\ current_time = Null
    /\ df = << >>
    /\ df_timeline = << >>
    /\ load_pc = "idle"

IdleNumber ==
    /\ num_fn = "none"
    /\ num_value = Null
    /\ num_text = << >>
    /\ num_back = Null
    /\ num_pc = "idle"

IdleApp ==
    /\ app_out = Null
    /\ app_pc = "idle"

IdlePage ==
    /\ session = Null
    /\ resource = Null
    /\ app_cache = Null
    /\ reachable = TRUE
    /\ page = "none"
    /\ view = "none"
    /\ button = FALSE
    /\ fetched = FALSE
    /\ page_pc = "idle"

IdleUi == IdleNumber /\ IdleApp /\ IdlePage

-----------------------------------------------------------------------------
(* normalize_currency applied to one entry *)

InitCurrency ==
    /\ IdleIdent
    /\ IdleFormat
    /\ IdleLoad
    /\ IdleDates
    /\ IdleKpis
    /\ IdleCache
    /\ IdleUi
    /\ cur_pc = "input"
    /\ cur_result = Null
    /\ \/ \E f \in Forms :
             /\ cur_form = Some(f)
             /\ cur_entry = Some(RenderForm(f))
       \/ /\ cur_form = Null
          /\ cur_entry \in {Null} \cup {Some(s) : s \in StringsUpTo(CurAlphabet, MaxFreeLen)}

NormalizeCall ==
    /\ cur_pc = "input"
    /\ cur_result' = normalize_currency(<< cur_entry >>)[1]
    /\ cur_pc' = "done"
    /\ UNCHANGED << cur_form, cur_entry, id_vars, fmt_vars, dt_vars, kpi_vars,
                    load_vars, cache_vars, ui_vars >>

NextCurrency == NormalizeCall

SpecCurrency == InitCurrency /\ [][NextCurrency]_vars

-----------------------------------------------------------------------------
(* core/data_service.py: _extract_oc_identifier *)

\* The characters \s matches, among those of the model's titles.
Whitespace == {" ", "\t"}

\* str.upper() of one character, on the letters of the model's titles.
Upper(c) ==
    CASE c = "o" -> "O" [] c = "c" -> "C" [] c = "t" -> "T" [] c = "e" -> "E"
      [] c = "x" -> "X" [] OTHER -> c

UpperSeq(s) == [k \in DOMAIN s |-> Upper(s[k])]

\* The end of the maximal run of characters of class cls that starts at i
\* (i - 1 when s[i] is not in cls).
RECURSIVE RunEnd(_, _, _)
RunEnd(s, cls, i) ==
    IF i <= Len(s) /\ s[i] \in cls THEN RunEnd(s, cls, i + 1) ELSE i - 1

\* Where prefix\s*\d+ (re.IGNORECASE) matched at position i ends, or 0 when
\* it does not match there. \s* and \d+ are greedy and their classes disjoint.
MatchEnd(s, prefix, i) ==
    IF ~OccursAt(UpperSeq(s), prefix, i) THEN 0
    ELSE LET ws == RunEnd(s, Whitespace, i + Len(prefix))
             ds == RunEnd(s, Digits, ws + 1)
         IN  IF ds > ws THEN ds ELSE 0

\* re.search: the match at the leftmost position that has one, as group(1).
RECURSIVE SearchFrom(_, _, _)
SearchFrom(s, prefix, i) ==
    IF i > Len(s) THEN Null
    ELSE IF MatchEnd(s, prefix, i) > 0
         THEN Some(SubSeq(s, i, MatchEnd(s, prefix, i)))
         ELSE SearchFrom(s, prefix, i + 1)

ReSearch(s, prefix) == SearchFrom(s, prefix, 1)

PrefixOC == << "O", "C" >>
PrefixCTE == << "C", "T", "E" >>

\* _extract_oc_identifier with the two patterns tried in the other order.
_extract_oc_identifier_CTEFirst(t) ==
    IF IsNull(t) THEN Null
    ELSE LET match     == ReSearch(t[1], PrefixOC)
             match_cte == ReSearch(t[1], PrefixCTE)
         IN  IF ~IsNull(match_cte)
             THEN Some(StrReplace(match_cte[1], << " " >>, << >>))
             ELSE IF ~IsNull(match)
                  THEN Some(StrReplace(match[1], << " " >>, << >>))
                  ELSE Null

_extract_oc_identifier(t) ==
    IF IsNull(t) THEN Null
    ELSE LET match     == ReSearch(t[1], PrefixOC)
             match_cte == ReSearch(t[1], PrefixCTE)
         IN  IF ~IsNull(match)
             THEN Some(StrReplace(match[1], << " " >>, << >>))
             ELSE IF ~IsNull(match_cte)
                  THEN Some(StrReplace(match_cte[1], << " " >>, << >>))
                  ELSE Null

-----------------------------------------------------------------------------
(* Inputs of _extract_oc_identifier: titles made of a few tokens *)

MaxTokens == 4

Tokens ==
    { << "O", "C" >>, << "o", "c" >>, << "O", "c" >>, << "C", "T", "E" >>,
      << "c", "t", "e" >>, << "1" >>, << "2" >>, << " " >>, << "\t" >>, << "x" >> }

RECURSIVE TitlesUpTo(_)
TitlesUpTo(n) ==
    IF n = 0 THEN {<< >>}
    ELSE LET shorter == TitlesUpTo(n - 1)
         IN  shorter \cup {s \o tok : s \in shorter, tok \in Tokens}

InitIdent ==
    /\ IdleCurrency
    /\ IdleFormat
    /\ IdleLoad
    /\ IdleDates
    /\ IdleKpis
    /\ IdleCache
    /\ IdleUi
    /\ id_pc = "input"
    /\ oc_id = Null
    /\ title \in {Null} \cup {Some(s) : s \in TitlesUpTo(MaxTokens)}

ExtractCall ==
    /\ id_pc = "input"
    /\ oc_id' = _extract_oc_identifier(title)
    /\ id_pc' = "done"
    /\ UNCHANGED << title, cur_vars, fmt_vars, dt_vars, kpi_vars, load_vars,
                    cache_vars, ui_vars >>

NextIdent == ExtractCall

SpecIdent == InitIdent /\ [][NextIdent]_vars

-----------------------------------------------------------------------------
(* core/formatters.py: format_time_in_stage *)

\* A duration in hours is the number of seconds h with hours = h / SecPerHour.
SecPerHour == 3600

\* int(x) of the float num / den (den > 0): truncation toward zero.
TruncToInt(num, den) ==
    IF num >= 0 THEN num \div den ELSE 0 - ((0 - num) \div den)

Chars_NA == << "N", "/", "A" >>
Chars_dias == << " ", "d", "i", "a", "s", ",", " " >>
Chars_horas == << " ", "h", "o", "r", "a", "s", ",", " " >>
Chars_minutos == << " ", "m", "i", "n", "u", "t", "o", "s" >>

\* format_time_in_stage with round(hours * 60) for int(hours * 60).
format_time_in_stage_Rounded(hours) ==
    IF IsNull(hours) THEN Chars_NA
    ELSE LET total_minutes == TruncToInt(hours[1] * 60 * 2 + SecPerHour, 2 * SecPerHour)
             days == total_minutes \div (24 * 60)
             remaining_minutes_after_days == total_minutes % (24 * 60)
             hrs == remaining_minutes_after_days \div 60
             minutes == remaining_minutes_after_days % 60
         IN  ToDigits(days) \o Chars_dias \o ToDigits(hrs) \o Chars_horas
             \o ToDigits(minutes) \o Chars_minutos

\* format_time_in_stage with the hours taken from the total, not from what
\* is left after the days.
format_time_in_stage_HoursOfTotal(hours) ==
    IF IsNull(hours) THEN Chars_NA
    ELSE LET total_minutes == TruncToInt(hours[1] * 60, SecPerHour)
             days == total_minutes \div (24 * 60)
             hrs == total_minutes \div 60
             minutes == total_minutes % 60
         IN  ToDigits(days) \o Chars_dias \o ToDigits(hrs) \o Chars_horas
             \o ToDigits(minutes) \o Chars_minutos

format_time_in_stage(hours) ==
    IF IsNull(hours) THEN Chars_NA
    ELSE LET total_minutes == TruncToInt(hours[1] * 60, SecPerHour)
             days == total_minutes \div (24 * 60)
             remaining_minutes_after_days == total_minutes % (24 * 60)
             hrs == remaining_minutes_after_days \div 60
             minutes == remaining_minutes_after_days % 60
         IN  ToDigits(days) \o Chars_dias \o ToDigits(hrs) \o Chars_horas
             \o ToDigits(minutes) \o Chars_minutos

-----------------------------------------------------------------------------
(* Inputs of format_time_in_stage: multiples of DurStep seconds *)

DurStep == 450
MaxDurSteps == 400
MaxNegSteps == 20

InitFormat ==
    /\ IdleCurrency
    /\ IdleIdent
    /\ IdleLoad
    /\ IdleDates
    /\ IdleKpis
    /\ IdleCache
    /\ IdleUi
    /\ fmt_pc = "input"
    /\ fmt_out = << >>
    /\ fmt_hours \in {Null} \cup {Some(k * DurStep) : k \in (0 - MaxNegSteps)..MaxDurSteps}

FormatCall ==
    /\ fmt_pc = "input"
    /\ fmt_out' = format_time_in_stage(fmt_hours)
    /\ fmt_pc' = "done"
    /\ UNCHANGED << fmt_hours, cur_vars, id_vars, dt_vars, kpi_vars, load_vars,
                    cache_vars, ui_vars >>

NextFormat == FormatCall

SpecFormat == InitFormat /\ [][NextFormat]_vars

-----------------------------------------------------------------------------
(* The sheets of the model *)

Chars_OC_45 == << "O", "C", " ", "4", "5" >>
Chars_CTE2 == << "C", "T", "E", "2" >>
Chars_Visita == << "x" >>
TitlePool == {Chars_OC_45, Chars_CTE2, Chars_Visita}

Chars_2000 == << "R", "$", " ", "2", ".", "0", "0", "0", ",", "0", "0" >>
ValorPool == {Chars_2000}

Chars_Fechamento == << "F", "e", "c", "h", "a", "m", "e", "n", "t", "o" >>
EstagioPool == {Chars_Fechamento}

EmptyCell == [form |-> "empty", secs |-> 0]
DateTimeCell(t) == [form |-> "datetime", secs |-> t]

\* 0 h, 25.5 h and 48 h after the epoch.
AberturaPool == {EmptyCell, DateTimeCell(0), DateTimeCell(172800)}
FechamentoPool == {EmptyCell, DateTimeCell(91800), DateTimeCell(172800)}

Chars_50 == << "5", "0", "%" >>
ProbPool == {Chars_50}

SheetRows ==
    [Titulo : TitlePool, Estagio : EstagioPool, Valor : ValorPool,
     Prob : ProbPool, abertura : AberturaPool, fechamento : FechamentoPool]

RECURSIVE SheetsUpTo(_)
SheetsUpTo(n) ==
    IF n = 0 THEN {<< >>}
    ELSE LET shorter == SheetsUpTo(n - 1)
         IN  shorter \cup {sh \o << r >> : sh \in shorter, r \in SheetRows}

-----------------------------------------------------------------------------
(* core/data_service.py: load_datasets *)

\* ord(c) of the characters an identifier can hold.
CharCode(c) ==
    CASE c = "\t" -> 9 [] c = " " -> 32 [] c \in Digits -> 48 + DigitVal(c)
      [] c = "C" -> 67 [] c = "E" -> 69 [] c = "O" -> 79 [] c = "T" -> 84
      [] c = "c" -> 99 [] c = "e" -> 101 [] c = "o" -> 111 [] c = "t" -> 116
      [] OTHER -> 120

\* a < b on two str: lexicographic by code point.
RECURSIVE StrLess(_, _)
StrLess(a, b) ==
    IF b = << >> THEN FALSE
    ELSE IF a = << >> THEN TRUE
    ELSE IF a[1] # b[1] THEN CharCode(a[1]) < CharCode(b[1])
    ELSE StrLess(Tail(a), Tail(b))

\* pd.to_datetime(errors='coerce', format='%d/%m/%Y %H:%M:%S') of one cell:
\* only a cell holding a full date and time of day parses, any other is NaT.
to_datetime(cell) == IF cell.form = "datetime" THEN Some(cell.secs) ELSE Null

\* x.hour if pd.notna(x) else -1
Hour_of_Day(ts) ==
    IF IsNull(ts) THEN 0 - 1 ELSE (ts[1] % (24 * SecPerHour)) \div SecPerHour

\* The calendar. A timestamp counts the seconds since 01/01/EpochYear 00:00:00.
EpochYear == 2024

IsLeap(y) == y % 4 = 0 /\ (y % 100 # 0 \/ y % 400 = 0)

DaysInMonth(y, m) ==
    IF m = 2 THEN (IF IsLeap(y) THEN 29 ELSE 28)
    ELSE IF m \in {4, 6, 9, 11} THEN 30 ELSE 31

MonthBefore(ym) ==
    IF ym.month = 1 THEN [year |-> ym.year - 1, month |-> 12]
    ELSE [year |-> ym.year, month |-> ym.month - 1]

MonthAfter(ym) ==
    IF ym.month = 12 THEN [year |-> ym.year + 1, month |-> 1]
    ELSE [year |-> ym.year, month |-> ym.month + 1]

\* The month that holds the day with number day counted from the first day
\* of the month ym.
RECURSIVE MonthOfDay(_, _)
MonthOfDay(day, ym) ==
    IF day < 0
    THEN MonthOfDay(day + DaysInMonth(MonthBefore(ym).year, MonthBefore(ym).month),
                    MonthBefore(ym))
    ELSE IF day < DaysInMonth(ym.year, ym.month) THEN ym
    ELSE MonthOfDay(day - DaysInMonth(ym.year, ym.month), MonthAfter(ym))

\* Series.dt.to_period('M') of one entry: its year and month, NaT for NaT.
MonthYear(ts) ==
    IF IsNull(ts) THEN Null
    ELSE Some(MonthOfDay(ts[1] \div (24 * SecPerHour),
                         [year |-> EpochYear, month |-> 1]))

\* The cleaning of one 'Prob %' entry and its pd.to_numeric.
normalize_prob(x) ==
    LET s0 == AsStr(x)
        s1 == StrReplace(s0, << "%" >>, << >>)
        s2 == StrReplace(s1, << "," >>, << "." >>)
        s3 == StrReplace(s2, << " " >>, << >>)
    IN  ToNumeric(s3)

\* The columns the pipeline derives entry by entry, as functions of the
\* entries the sheets of the model hold.
ValorSeries == [x \in ValorPool |-> normalize_currency(<< Some(x) >>)[1]]

ProbSeries == [x \in ProbPool |-> normalize_prob(Some(x))]

IdentifierSeries == [x \in TitlePool |-> _extract_oc_identifier(Some(x))]

\* The normalized table: one row per data row of the sheet, in sheet order.
\* Of the four monetary columns, which get the same treatment, the rows
\* carry 'Valor'. A monetary column or 'Prob %' that the header lacks is
\* skipped, and the field of the row is Null.
Normalized(cols, all_rows) ==
    [i \in DOMAIN all_rows |->
        LET r == all_rows[i]
        IN  [idx |-> i,
             Titulo |-> r.Titulo,
             Estagio |-> r.Estagio,
             Valor |-> IF "Valor" \in cols THEN ValorSeries[r.Valor] ELSE Null,
             Prob |-> IF "Prob %" \in cols THEN ProbSeries[r.Prob] ELSE Null,
             abertura |-> to_datetime(r.abertura),
             fechamento |-> to_datetime(r.fechamento),
             OC_Identifier |-> IdentifierSeries[r.Titulo],
             MonthYear_Abertura |-> MonthYear(to_datetime(r.abertura)),
             MonthYear_Fechamento |-> MonthYear(to_datetime(r.fechamento)),
             Hour_of_Day_Abertura |-> Hour_of_Day(to_datetime(r.abertura))]]

\* dropna(subset=['OC_Identifier', 'Data de abertura'])
DropNa(table) ==
    SelectSeq(table, LAMBDA r : ~IsNull(r.OC_Identifier) /\ ~IsNull(r.abertura))

\* The sort key order on (OC_Identifier, Data de abertura).
KeyLess(a, b) ==
    \/ StrLess(a.OC_Identifier[1], b.OC_Identifier[1])
    \/ /\ a.OC_Identifier = b.OC_Identifier
       /\ a.abertura[1] < b.abertura[1]

\* InsertRow with a row placed before the rows already placed that have its
\* key: rows of equal keys end in the reverse of their sheet order.
RECURSIVE InsertRow_Unstable(_, _)
InsertRow_Unstable(sorted, r) ==
    IF sorted = << >> THEN << r >>
    ELSE IF ~KeyLess(sorted[Len(sorted)], r)
         THEN InsertRow_Unstable(SubSeq(sorted, 1, Len(sorted) - 1), r)
              \o << sorted[Len(sorted)] >>
         ELSE sorted \o << r >>

\* sort_values on two keys is a stable sort: a row goes after the rows
\* already placed whose key is not greater.
RECURSIVE InsertRow(_, _)
InsertRow(sorted, r) ==
    IF sorted = << >> THEN << r >>
    ELSE IF KeyLess(r, sorted[Len(sorted)])
         THEN InsertRow(SubSeq(sorted, 1, Len(sorted) - 1), r)
              \o << sorted[Len(sorted)] >>
         ELSE sorted \o << r >>

RECURSIVE SortValues(_)
SortValues(table) ==
    IF table = << >> THEN << >>
    ELSE InsertRow(SortValues(SubSeq(table, 1, Len(table) - 1)), table[Len(table)])

\* TimeInStage with the close date ignored: every row measured to now.
TimeInStage_AlwaysNow(r, now) == Some(now - r.abertura[1])

\* TimeInStage with no current_time to fall back on: a row with no close
\* date keeps the NaN of close - open.
TimeInStage_ClosedOnly(r, now) ==
    IF IsNull(r.fechamento) THEN Null ELSE Some(r.fechamento[1] - r.abertura[1])

\* Time_in_Stage of one row, in hours: close - open, and for a row with no
\* close date the time from open to the run's current_time.
TimeInStage(r, now) ==
    LET closed == IF IsNull(r.fechamento) THEN Null
                  ELSE Some(r.fechamento[1] - r.abertura[1])
    IN  IF IsNull(r.fechamento) THEN Some(now - r.abertura[1]) ELSE closed

\* StageTimes with the clock read again for each row, one second later each.
StageTimes_ClockPerRow(sorted, now) ==
    [k \in DOMAIN sorted |->
        LET r == sorted[k]
            hours == TimeInStage(r, now + k)
        IN  [idx |-> r.idx,
             OC_Identifier |-> r.OC_Identifier,
             Estagio |-> r.Estagio,
             abertura |-> r.abertura,
             fechamento |-> r.fechamento,
             Time_in_Stage |-> hours,
             Tempo |-> format_time_in_stage(hours)]]

\* The timeline rows with their durations: current_time is one value, read
\* before the rows are visited.
StageTimes(sorted, now) ==
    [k \in DOMAIN sorted |->
        LET r == sorted[k]
            hours == TimeInStage(r, now)
        IN  [idx |-> r.idx,
             OC_Identifier |-> r.OC_Identifier,
             Estagio |-> r.Estagio,
             abertura |-> r.abertura,
             fechamento |-> r.fechamento,
             Time_in_Stage |-> hours,
             Tempo |-> format_time_in_stage(hours)]]

\* What every failing path returns: pd.DataFrame(), pd.DataFrame().
EmptyTables(path) == [df |-> << >>, df_timeline |-> << >>, path |-> path]

\* load_datasets with no except clause: what the try block raises reaches
\* the caller, who gets no tables.
load_datasets_Unguarded(client_ok, read_ok, cols, all_rows, now) ==
    IF ~client_ok THEN EmptyTables("no_client")
    ELSE IF ~read_ok THEN EmptyTables("raised")
    ELSE IF ~(RequiredColumns \subseteq cols) THEN EmptyTables("raised")
    ELSE LET table == Normalized(cols, all_rows)
             kept == SortValues(DropNa(table))
         IN  IF kept = << >> THEN EmptyTables("raised")
             ELSE [df |-> table, df_timeline |-> StageTimes(kept, now),
                   path |-> "loaded"]

\* One run. client_ok: get_gspread_client returned a client; read_ok: opening
\* and reading the sheet did not raise. A date column, 'Título' or 'Estágio'
\* that the header lacks raises KeyError. With no timeline row left after
\* dropna, DataFrame.apply(axis=1) returns a DataFrame, the assignment of it
\* to the Time_in_Stage column raises ValueError. The except clause turns
\* every exception into two empty tables. path is where the run left the
\* function.
load_datasets(client_ok, read_ok, cols, all_rows, now) ==
    IF ~client_ok THEN EmptyTables("no_client")
    ELSE IF ~read_ok THEN EmptyTables("read_failed")
    ELSE IF ~(RequiredColumns \subseteq cols) THEN EmptyTables("transform_failed")
    ELSE LET table == Normalized(cols, all_rows)
             kept == SortValues(DropNa(table))
         IN  IF kept = << >> THEN EmptyTables("transform_failed")
             ELSE [df |-> table, df_timeline |-> StageTimes(kept, now),
                   path |-> "loaded"]

-----------------------------------------------------------------------------
(* pd.to_datetime(errors='coerce', format='%d/%m/%Y %H:%M:%S') on the text *)
(* of one cell                                                             *)

\* The days from 01/01/EpochYear to 01/01/y.
RECURSIVE DaysBeforeYear(_)
DaysBeforeYear(y) ==
    IF y = EpochYear THEN 0
    ELSE IF y > EpochYear
         THEN DaysBeforeYear(y - 1) + (IF IsLeap(y - 1) THEN 366 ELSE 365)
         ELSE DaysBeforeYear(y + 1) - (IF IsLeap(y) THEN 366 ELSE 365)

\* The days from 01/01/y to the first day of month m of y.
RECURSIVE DaysBeforeMonth(_, _)
DaysBeforeMonth(y, m) ==
    IF m = 1 THEN 0 ELSE DaysBeforeMonth(y, m - 1) + DaysInMonth(y, m - 1)

Timestamp(y, m, d, H, M, S) ==
    ((DaysBeforeYear(y) + DaysBeforeMonth(y, m) + d - 1) * 24 + H) * SecPerHour
    + M * 60 + S

\* The format as the regular expression strptime compiles it to: %d, %m,
\* %H, %M and %S take one or two digits (%d also a space and one digit), %Y
\* four, the space of the format is \s+, and the whole text must match. Each
\* field is followed by a character that is no digit or by the end, so a
\* field is the whole run of digits where it starts. A text that does not
\* match, or names no day of the calendar, is coerced to NaT.
ParseDateTime(s) ==
    LET o  == IF s # << >> /\ s[1] = " " THEN 1 ELSE 0
        e1 == RunEnd(s, Digits, o + 1)
        e2 == RunEnd(s, Digits, e1 + 2)
        e3 == RunEnd(s, Digits, e2 + 2)
        w  == RunEnd(s, Whitespace, e3 + 1)
        e4 == RunEnd(s, Digits, w + 1)
        e5 == RunEnd(s, Digits, e4 + 2)
        e6 == RunEnd(s, Digits, e5 + 2)
        shape ==
            /\ e1 - o \in 1..(2 - o)
            /\ e1 < Len(s) /\ s[e1 + 1] = "/"
            /\ e2 - (e1 + 1) \in 1..2
            /\ e2 < Len(s) /\ s[e2 + 1] = "/"
            /\ e3 - (e2 + 1) = 4
            /\ w > e3
            /\ e4 - w \in 1..2
            /\ e4 < Len(s) /\ s[e4 + 1] = ":"
            /\ e5 - (e4 + 1) \in 1..2
            /\ e5 < Len(s) /\ s[e5 + 1] = ":"
            /\ e6 - (e5 + 1) \in 1..2
            /\ e6 = Len(s)
        d == DigitsValue(SubSeq(s, o + 1, e1))
        m == DigitsValue(SubSeq(s, e1 + 2, e2))
        y == DigitsValue(SubSeq(s, e2 + 2, e3))
        H == DigitsValue(SubSeq(s, w + 1, e4))
        M == DigitsValue(SubSeq(s, e4 + 2, e5))
        S == DigitsValue(SubSeq(s, e5 + 2, e6))
    IN  IF ~shape THEN Null
        ELSE IF /\ m \in 1..12
                /\ d \in 1..DaysInMonth(y, m)
                /\ H \in 0..23
                /\ M \in 0..59
                /\ S \in 0..59
             THEN Some(Timestamp(y, m, d, H, M, S))
             ELSE Null

\* A field in two digits, or as few as it takes.
TwoDigits(n, padded) ==
    IF padded \/ n >= 10 THEN << DigitChar(n \div 10), DigitChar(n % 10) >>
    ELSE << DigitChar(n) >>

\* The cells the model writes from a date: day/month/year, zero-padded or
\* not, with the time of day ("datetime") or without it ("date").
DateForms ==
    [kind : {"datetime", "date"}, padded : BOOLEAN,
     d : {1, 15, 29, 31}, m : {1, 2, 12}, y : {2023, 2024},
     H : {0, 9, 23}, M : {0, 30}, S : {0, 59}]

RenderDate(f) ==
    TwoDigits(f.d, f.padded) \o << "/" >> \o TwoDigits(f.m, f.padded)
    \o << "/" >> \o ToDigits(f.y)
    \o (IF f.kind = "date" THEN << >>
        ELSE << " " >> \o TwoDigits(f.H, f.padded) \o << ":" >>
             \o TwoDigits(f.M, TRUE) \o << ":" >> \o TwoDigits(f.S, TRUE))

DateAlphabet == {"1", "/", " ", ":", "x"}

MaxDateFreeLen == 3

InitDates ==
    /\ IdleCurrency
    /\ IdleIdent
    /\ IdleFormat
    /\ IdleKpis
    /\ IdleLoad
    /\ IdleCache
    /\ IdleUi
    /\ date_pc = "input"
    /\ date_out = Null
    /\ \/ \E f \in DateForms :
             /\ date_form = Some(f)
             /\ date_text = RenderDate(f)
       \/ /\ date_form = Null
          /\ date_text \in StringsUpTo(DateAlphabet, MaxDateFreeLen)

ToDatetimeCall ==
    /\ date_pc = "input"
    /\ date_out' = ParseDateTime(date_text)
    /\ date_pc' = "done"
    /\ UNCHANGED << date_form, date_text, cur_vars, id_vars, fmt_vars, kpi_vars,
                    load_vars, cache_vars, ui_vars >>

NextDates == ToDatetimeCall

SpecDates == InitDates /\ [][NextDates]_vars

-----------------------------------------------------------------------------
(* The pipeline: the clock advances, load_datasets runs *)

Init ==
    /\ IdleCurrency
    /\ IdleIdent
    /\ IdleFormat
    /\ IdleDates
    /\ IdleKpis
    /\ IdleCache
    /\ IdleUi
    /\ columns = AllColumns
    /\ sheet \in SheetsUpTo(MaxRows)
    /\ clock = ClockStart
    /\ current_time = Null
    /\ df = << >>
    /\ df_timeline = << >>
    /\ load_pc = "start"

Tick ==
    /\ clock < ClockStart + MaxTicks * TickLen
    /\ clock' = clock + TickLen
    /\ UNCHANGED << columns, sheet, current_time, df, df_timeline, load_pc,
                    cur_vars, id_vars, fmt_vars, dt_vars, kpi_vars, cache_vars,
                    ui_vars >>

LoadDatasets ==
    \E client_ok \in BOOLEAN, read_ok \in BOOLEAN :
        \E out \in {load_datasets(client_ok, read_ok, columns, sheet, clock)} :
            /\ df' = out.df
            /\ df_timeline' = out.df_timeline
            /\ current_time' = IF client_ok /\ read_ok THEN Some(clock) ELSE Null
            /\ load_pc' = out.path
            /\ UNCHANGED << columns, sheet, clock, cur_vars, id_vars, fmt_vars,
                            dt_vars, kpi_vars, cache_vars, ui_vars >>

Next == Tick \/ LoadDatasets

Spec == Init /\ [][Next]_vars

-----------------------------------------------------------------------------
(* The pipeline over sheets whose header lacks a column *)

\* A closed row, a row still open and a row with no code and no dates.
Row_Closed ==
    [Titulo |-> Chars_OC_45, Estagio |-> Chars_Fechamento, Valor |-> Chars_2000,
     Prob |-> Chars_50, abertura |-> DateTimeCell(0),
     fechamento |-> DateTimeCell(91800)]

Row_Open ==
    [Titulo |-> Chars_CTE2, Estagio |-> Chars_Fechamento, Valor |-> Chars_2000,
     Prob |-> Chars_50, abertura |-> DateTimeCell(172800),
     fechamento |-> EmptyCell]

Row_NoCode ==
    [Titulo |-> Chars_Visita, Estagio |-> Chars_Fechamento, Valor |-> Chars_2000,
     Prob |-> Chars_50, abertura |-> EmptyCell, fechamento |-> EmptyCell]

FewRows == {Row_Closed, Row_Open, Row_NoCode}

RECURSIVE FewSheetsUpTo(_)
FewSheetsUpTo(n) ==
    IF n = 0 THEN {<< >>}
    ELSE LET shorter == FewSheetsUpTo(n - 1)
         IN  shorter \cup {sh \o << r >> : sh \in shorter, r \in FewRows}

\* The full header, and the full header less one column.
Headers == {AllColumns} \cup {AllColumns \ {c} : c \in AllColumns}

InitColumns ==
    /\ IdleCurrency
    /\ IdleIdent
    /\ IdleFormat
    /\ IdleDates
    /\ IdleKpis
    /\ IdleCache
    /\ IdleUi
    /\ columns \in Headers
    /\ sheet \in FewSheetsUpTo(MaxRows)
    /\ clock = ClockStart
    /\ current_time = Null
    /\ df = << >>
    /\ df_timeline = << >>
    /\ load_pc = "start"

SpecColumns == InitColumns /\ [][Next]_vars

-----------------------------------------------------------------------------
(* app.py: load_data, the loader of the single-file variant of the program *)

\* str.strip(): the text without its leading and trailing whitespace.
RECURSIVE Strip(_)
Strip(s) ==
    IF s = << >> THEN s
    ELSE IF s[1] \in Whitespace THEN Strip(Tail(s))
    ELSE IF s[Len(s)] \in Whitespace THEN Strip(SubSeq(s, 1, Len(s) - 1))
    ELSE s

\* The cleaning of one monetary entry in load_data and its pd.to_numeric.
load_data_currency(x) ==
    LET s0 == AsStr(x)
        s1 == StrReplace(s0, << "R", "$" >>, << >>)
        s2 == StrReplace(s1, << "," >>, << >>)
        s3 == Strip(s2)
    IN  ToNumeric(s3)

\* dt.month.fillna(0).astype(int) and dt.year.fillna(0).astype(int)
MonthOrZero(ts) == IF IsNull(ts) THEN 0 ELSE MonthYear(ts)[1].month

YearOrZero(ts) == IF IsNull(ts) THEN 0 ELSE MonthYear(ts)[1].year

\* The normalized table of load_data. Its extract_oc_identifier is the code
\* of _extract_oc_identifier; 'Prob %' is left as the sheet holds it.
load_data_Normalized(all_rows) ==
    [i \in DOMAIN all_rows |->
        LET r == all_rows[i]
        IN  [idx |-> i,
             Titulo |-> r.Titulo,
             Estagio |-> r.Estagio,
             Valor |-> load_data_currency(Some(r.Valor)),
             Prob |-> Some(r.Prob),
             abertura |-> to_datetime(r.abertura),
             fechamento |-> to_datetime(r.fechamento),
             OC_Identifier |-> _extract_oc_identifier(Some(r.Titulo)),
             Mes_de_Abertura |-> MonthOrZero(to_datetime(r.abertura)),
             Ano_de_Abertura |-> YearOrZero(to_datetime(r.abertura)),
             Mes_de_Fechamento |-> MonthOrZero(to_datetime(r.fechamento)),
             Ano_de_Fechamento |-> YearOrZero(to_datetime(r.fechamento)),
             MonthYear_Abertura |-> MonthYear(to_datetime(r.abertura)),
             MonthYear_Fechamento |-> MonthYear(to_datetime(r.fechamento)),
             Hour_of_Day_Abertura |-> Hour_of_Day(to_datetime(r.abertura))]]

\* The format_time_in_stage that load_data defines for itself.
load_data_format_time_in_stage(hours) ==
    IF IsNull(hours) THEN Chars_NA
    ELSE LET total_minutes == TruncToInt(hours[1] * 60, SecPerHour)
             days == total_minutes \div (24 * 60)
             remaining_minutes_after_days == total_minutes % (24 * 60)
             hrs == remaining_minutes_after_days \div 60
             minutes == remaining_minutes_after_days % 60
         IN  ToDigits(days) \o << "d", " " >> \o ToDigits(hrs) \o << "h", " " >>
             \o ToDigits(minutes) \o << "m" >>

load_data_StageTimes(sorted, now) ==
    [k \in DOMAIN sorted |->
        LET r == sorted[k]
            hours == TimeInStage(r, now)
        IN  [idx |-> r.idx,
             OC_Identifier |-> r.OC_Identifier,
             Estagio |-> r.Estagio,
             abertura |-> r.abertura,
             fechamento |-> r.fechamento,
             Time_in_Stage |-> hours,
             Time_in_Stage_Formatted |-> load_data_format_time_in_stage(hours)]]

\* One run of load_data. The four monetary columns are read with no test of
\* their presence.
load_data(client_ok, read_ok, cols, all_rows, now) ==
    IF ~client_ok THEN EmptyTables("no_client")
    ELSE IF ~read_ok THEN EmptyTables("read_failed")
    ELSE IF ~((value_cols \cup RequiredColumns) \subseteq cols)
         THEN EmptyTables("transform_failed")
    ELSE LET table == load_data_Normalized(all_rows)
             kept == SortValues(DropNa(table))
         IN  IF kept = << >> THEN EmptyTables("transform_failed")
             ELSE [df |-> table, df_timeline |-> load_data_StageTimes(kept, now),
                   path |-> "loaded"]

-----------------------------------------------------------------------------
(* st.cache_data around the loader: load_datasets is cached with ttl=900, *)
(* load_data with no ttl                                                   *)

ttl == 900

\* The ttl of the cache entry of a loader (Null: the entry never expires).
CacheTtl(l) == IF l = "load_datasets" THEN Some(ttl) ELSE Null

\* Whether an entry stored at the time at is still served at the time now.
Fresh(l, at, now) == IsNull(CacheTtl(l)) \/ now - at < CacheTtl(l)[1]

\* The body of the loader l.
LoaderBody(l, client_ok, read_ok, cols, all_rows, now) ==
    IF l = "load_datasets"
    THEN load_datasets(client_ok, read_ok, cols, all_rows, now)
    ELSE load_data(client_ok, read_ok, cols, all_rows, now)

CacheStep == 450
MaxElapse == 3
MaxCalls == 3

CacheSheets == {<< >>, << Row_Closed >>, << Row_Open >>}

InitCache ==
    /\ IdleCurrency
    /\ IdleIdent
    /\ IdleFormat
    /\ IdleDates
    /\ IdleKpis
    /\ IdleUi
    /\ loader \in {"load_datasets", "load_data"}
    /\ cache = Null
    /\ calls = 0
    /\ columns = AllColumns
    /\ sheet \in CacheSheets
    /\ clock = ClockStart
    /\ current_time = Null
    /\ df = << >>
    /\ df_timeline = << >>
    /\ load_pc = "start"

\* Time passes.
Elapse ==
    /\ clock < ClockStart + MaxElapse * CacheStep
    /\ clock' = clock + CacheStep
    /\ UNCHANGED << columns, sheet, current_time, df, df_timeline, load_pc,
                    cur_vars, id_vars, fmt_vars, dt_vars, kpi_vars, cache_vars,
                    ui_vars >>

\* Somebody edits the spreadsheet.
EditSheet ==
    /\ sheet' \in CacheSheets \ {sheet}
    /\ UNCHANGED << columns, clock, current_time, df, df_timeline, load_pc,
                    cur_vars, id_vars, fmt_vars, dt_vars, kpi_vars, cache_vars,
                    ui_vars >>

\* A call of the loader through its cache: a fresh entry is returned as it
\* is, otherwise the body runs and its result is stored with the time.
CallLoader ==
    /\ calls < MaxCalls
    /\ calls' = calls + 1
    /\ IF ~IsNull(cache) /\ Fresh(loader, cache[1].at, clock)
       THEN /\ df' = cache[1].df
            /\ df_timeline' = cache[1].df_timeline
            /\ load_pc' = "cached"
            /\ UNCHANGED << cache, current_time >>
       ELSE \E client_ok \in BOOLEAN, read_ok \in BOOLEAN :
                \E out \in {LoaderBody(loader, client_ok, read_ok, columns, sheet, clock)} :
                    /\ df' = out.df
                    /\ df_timeline' = out.df_timeline
                    /\ load_pc' = out.path
                    /\ current_time' = IF client_ok /\ read_ok THEN Some(clock) ELSE Null
                    /\ cache' = Some([df |-> out.df, df_timeline |-> out.df_timeline,
                                      at |-> clock])
    /\ UNCHANGED << loader, columns, sheet, clock, cur_vars, id_vars, fmt_vars,
                    dt_vars, kpi_vars, ui_vars >>

NextCache == Elapse \/ EditSheet \/ CallLoader

SpecCache == InitCache /\ [][NextCache]_vars

-----------------------------------------------------------------------------
(* core/formatters.py: format_currency, safe_percentage *)
(* pages/1_Painel_Geral.py: render_kpis                 *)
(* A number of a KPI is a rational [num, den] in lowest terms, den > 0.    *)

Abs(n) == IF n < 0 THEN 0 - n ELSE n

RECURSIVE GCD(_, _)
GCD(a, b) == IF b = 0 THEN a ELSE GCD(b, a % b)

Rat(n, d) ==
    LET g == GCD(Abs(n), d)
    IN  [num |-> n \div g, den |-> d \div g]

RatAdd(a, b) == Rat(a.num * b.den + b.num * a.den, a.den * b.den)

RatMul(a, b) == Rat(a.num * b.num, a.den * b.den)

\* a / n for an int n > 0.
RatDivInt(a, n) == Rat(a.num, a.den * n)

\* The nearest int to n / d (n >= 0, d > 0), a tie going to the even one.
RoundHalfEven(n, d) ==
    LET q == n \div d
        r == n % d
    IN  IF 2 * r < d THEN q
        ELSE IF 2 * r > d THEN q + 1
        ELSE IF q % 2 = 0 THEN q ELSE q + 1

\* The digits of an int with a "," before every group of three from the
\* right: the "," option of the format specification.
RECURSIVE GroupThousands(_)
GroupThousands(ds) ==
    IF Len(ds) <= 3 THEN ds
    ELSE GroupThousands(SubSeq(ds, 1, Len(ds) - 3)) \o << "," >>
         \o SubSeq(ds, Len(ds) - 2, Len(ds))

\* The last k digits of n, with leading zeros.
RECURSIVE LastDigits(_, _)
LastDigits(n, k) ==
    IF k = 0 THEN << >> ELSE LastDigits(n \div 10, k - 1) \o << DigitChar(n % 10) >>

\* format(value, ",.kf") or format(value, ".kf"): the sign, the int part,
\* grouped or not, ".", and k decimals of the rounded value.
FormatFixed(v, k, grouped) ==
    LET scaled == RoundHalfEven(Abs(v.num) * Pow10(k), v.den)
        ip == NatDigits(scaled \div Pow10(k))
    IN  (IF v.num < 0 THEN << "-" >> ELSE << >>)
        \o (IF grouped THEN GroupThousands(ip) ELSE ip)
        \o << "." >> \o LastDigits(scaled % Pow10(k), k)

Chars_RS == << "R", "$", " " >>
Chars_RS_0 == << "R", "$", " ", "0", ",", "0", "0" >>

\* format_currency without the exchange of "," and ".": the amount as the
\* format specification writes it.
format_currency_NoSwap(value) ==
    IF IsNull(value) THEN Chars_RS_0
    ELSE Chars_RS \o FormatFixed(value[1], 2, TRUE)

format_currency(value) ==
    IF IsNull(value) THEN Chars_RS_0
    ELSE LET s0 == Chars_RS \o FormatFixed(value[1], 2, TRUE)
             s1 == StrReplace(s0, << "," >>, << "X" >>)
             s2 == StrReplace(s1, << "." >>, << "," >>)
             s3 == StrReplace(s2, << "X" >>, << "." >>)
         IN  s3

safe_percentage(value) ==
    IF IsNull(value) THEN << "0", ",", "0", "%" >>
    ELSE FormatFixed(value[1], 1, FALSE) \o << "%" >>

\* Series.sum(min_count=n): the sum of the entries that are not null, and
\* NaN when fewer than n entries are not null. sum() has min_count 0.
RECURSIVE SumOf(_)
SumOf(values) ==
    IF values = << >> THEN Rat(0, 1)
    ELSE RatAdd(SumOf(SubSeq(values, 1, Len(values) - 1)), values[Len(values)][1])

SeriesSum(series, min_count) ==
    LET present == SelectSeq(series, LAMBDA x : ~IsNull(x))
    IN  IF Len(present) < min_count THEN Null ELSE Some(SumOf(present))

\* Series.nunique(): the number of distinct entries that are not null.
NUnique(series) == Cardinality({series[k][1] : k \in {j \in DOMAIN series : ~IsNull(series[j])}})

\* The column of a table as a Series.
Column(rows, field) == [k \in DOMAIN rows |-> rows[k][field]]

\* ganha_df['Valor rec. fechamento'].where(notna, ganha_df['Valor'])
WonValues(rows) ==
    [k \in DOMAIN rows |->
        IF ~IsNull(rows[k].Valor_rec_fechamento) THEN rows[k].Valor_rec_fechamento
        ELSE rows[k].Valor]

\* filtered_df['Valor'] * (filtered_df['Prob %'] / 100)
Forecast(rows) ==
    [k \in DOMAIN rows |->
        IF IsNull(rows[k].Valor) \/ IsNull(rows[k].Prob) THEN Null
        ELSE Some(RatMul(rows[k].Valor[1], RatDivInt(rows[k].Prob[1], 100)))]

\* The six KPI cards, label and displayed value ("Unicas" and "Medio" stand
\* for 'Únicas' and 'Médio').
render_kpis(filtered_df) ==
    LET rows == filtered_df.rows
        ganha_df == SelectSeq(rows, LAMBDA r : r.Estado = "Ganha")
        total_ops == IF rows # << >> THEN NUnique(Column(rows, "OC_Identifier")) ELSE 0
        unique_won == IF ganha_df # << >> THEN NUnique(Column(ganha_df, "OC_Identifier")) ELSE 0
        total_won_value == SeriesSum(WonValues(ganha_df), 0)
        win_rate == IF total_ops # 0 THEN Rat(unique_won * 100, total_ops) ELSE Rat(0, 1)
        valor_pipeline ==
            SeriesSum(Column(SelectSeq(rows, LAMBDA r : r.Estado \notin {"Ganha", "Perdida"}),
                             "Valor"), 1)
        valor_previsto ==
            IF filtered_df.has_prob THEN SeriesSum(Forecast(rows), 1) ELSE Some(Rat(0, 1))
        ticket_medio ==
            IF unique_won # 0 THEN Some(RatDivInt(total_won_value[1], unique_won))
            ELSE Some(Rat(0, 1))
    IN  << [label |-> "Total Oportunidades Unicas", value |-> ToDigits(total_ops)],
           [label |-> "Taxa de Sucesso", value |-> safe_percentage(Some(win_rate))],
           [label |-> "Valor Total Ganho", value |-> format_currency(total_won_value)],
           [label |-> "Ticket Medio Ganho", value |-> format_currency(ticket_medio)],
           [label |-> "Valor em Aberto", value |-> format_currency(valor_pipeline)],
           [label |-> "Valor Previsto (Prob %)", value |-> format_currency(valor_previsto)] >>

-----------------------------------------------------------------------------
(* Inputs of render_kpis *)

MaxKpiRows == 2

Money(cents) == Some(Rat(cents, 100))

\* Rows of every state with 'Valor' null, zero or 1.000,00, the received
\* closing value null or 900,00 and 'Prob %' null or 50; a second and a
\* missing identifier.
KpiRows ==
    [Estado : {"Ganha", "Aberta"}, OC_Identifier : {Some("OC1")},
     Valor : {Null, Money(0), Money(100000)},
     Valor_rec_fechamento : {Null, Money(90000)},
     Prob : {Null, Some(Rat(50, 1))}]
    \cup
    [Estado : {"Perdida"}, OC_Identifier : {Some("OC1")},
     Valor : {Money(100000)}, Valor_rec_fechamento : {Null}, Prob : {Some(Rat(50, 1))}]
    \cup
    [Estado : {"Ganha"}, OC_Identifier : {Null, Some("OC2")},
     Valor : {Money(250050)}, Valor_rec_fechamento : {Null}, Prob : {Null}]

RECURSIVE KpiTablesUpTo(_)
KpiTablesUpTo(n) ==
    IF n = 0 THEN {<< >>}
    ELSE LET shorter == KpiTablesUpTo(n - 1)
         IN  shorter \cup {t \o << r >> : t \in shorter, r \in KpiRows}

InitKpis ==
    /\ IdleCurrency
    /\ IdleIdent
    /\ IdleFormat
    /\ IdleDates
    /\ IdleLoad
    /\ IdleCache
    /\ IdleUi
    /\ kpi_pc = "input"
    /\ kpi_out = << >>
    /\ kpi_table \in [has_prob : BOOLEAN, rows : KpiTablesUpTo(MaxKpiRows)]

RenderKpis ==
    /\ kpi_pc = "input"
    /\ kpi_out' = render_kpis(kpi_table)
    /\ kpi_pc' = "done"
    /\ UNCHANGED << kpi_table, cur_vars, id_vars, fmt_vars, dt_vars, load_vars,
                    cache_vars, ui_vars >>

NextKpis == RenderKpis

SpecKpis == InitKpis /\ [][NextKpis]_vars

-----------------------------------------------------------------------------
(* core/formatters.py: format_currency and safe_percentage applied to one *)
(* number, and normalize_currency applied to what format_currency wrote   *)

MaxDense == 120

\* Numbers in thousandths: every one up to MaxDense, then amounts with one,
\* two and three groups of thousands, with two decimals or three.
Thousandths ==
    (0..MaxDense)
    \cup {995, 1000, 1005, 52345, 99995, 100000, 999990, 999999, 1234560,
          1234567, 2000000, 1234567000, 1234567500}

NumberInputs ==
    {Null} \cup {Some(Rat(sign * m, 1000)) : sign \in {1, -1}, m \in Thousandths}

InitNumber ==
    /\ IdleCurrency
    /\ IdleIdent
    /\ IdleFormat
    /\ IdleDates
    /\ IdleKpis
    /\ IdleLoad
    /\ IdleCache
    /\ IdleApp
    /\ IdlePage
    /\ num_fn = "none"
    /\ num_value \in NumberInputs
    /\ num_text = << >>
    /\ num_back = Null
    /\ num_pc = "input"

FormatCurrencyCall ==
    /\ num_pc = "input"
    /\ num_fn' = "format_currency"
    /\ num_text' = format_currency(num_value)
    /\ num_pc' = "formatted"
    /\ UNCHANGED << num_value, num_back, cur_vars, id_vars, fmt_vars, dt_vars,
                    kpi_vars, load_vars, cache_vars, app_vars, page_vars >>

SafePercentageCall ==
    /\ num_pc = "input"
    /\ num_fn' = "safe_percentage"
    /\ num_text' = safe_percentage(num_value)
    /\ num_pc' = "done"
    /\ UNCHANGED << num_value, num_back, cur_vars, id_vars, fmt_vars, dt_vars,
                    kpi_vars, load_vars, cache_vars, app_vars, page_vars >>

\* The text format_currency wrote, read back as an entry of a value column.
NormalizeBack ==
    /\ num_pc = "formatted"
    /\ num_back' = normalize_currency(<< Some(num_text) >>)[1]
    /\ num_pc' = "done"
    /\ UNCHANGED << num_fn, num_value, num_text, cur_vars, id_vars, fmt_vars,
                    dt_vars, kpi_vars, load_vars, cache_vars, app_vars, page_vars >>

NextNumber == FormatCurrencyCall \/ SafePercentageCall \/ NormalizeBack

SpecNumber == InitNumber /\ [][NextNumber]_vars

-----------------------------------------------------------------------------
(* One entry of a monetary column through both pipelines: normalize_currency *)
(* of load_datasets and the cleaning of load_data in app.py                  *)

InitVariants ==
    /\ IdleIdent
    /\ IdleFormat
    /\ IdleLoad
    /\ IdleDates
    /\ IdleKpis
    /\ IdleCache
    /\ IdleNumber
    /\ IdlePage
    /\ cur_pc = "input"
    /\ cur_result = Null
    /\ app_pc = "input"
    /\ app_out = Null
    /\ \/ \E f \in Forms :
             /\ cur_form = Some(f)
             /\ cur_entry = Some(RenderForm(f))
       \/ /\ cur_form = Null
          /\ cur_entry \in {Some(s) : s \in StringsUpTo(CurAlphabet, MaxFreeLen)}

\* df[col].astype(str).str.replace(...).str.strip() and pd.to_numeric of
\* app.py, for the entry.
LoadDataCurrencyCall ==
    /\ app_pc = "input"
    /\ app_out' = load_data_currency(cur_entry)
    /\ app_pc' = "done"
    /\ UNCHANGED << cur_vars, id_vars, fmt_vars, dt_vars, kpi_vars, load_vars,
                    cache_vars, num_vars, page_vars >>

NextVariants == NormalizeCall \/ LoadDataCurrencyCall

SpecVariants == InitVariants /\ [][NextVariants]_vars

-----------------------------------------------------------------------------
(* app.py: the KPIs of its Painel Geral section, beside render_kpis *)

\* The three metrics of "Resumo Geral", label and displayed value.
app_kpis(filtered_df) ==
    LET rows == filtered_df.rows
        ganha_df_filtered == SelectSeq(rows, LAMBDA r : r.Estado = "Ganha")
        total_opportunities ==
            IF rows # << >> THEN NUnique(Column(rows, "OC_Identifier")) ELSE 0
        total_won_value ==
            IF ganha_df_filtered # << >>
            THEN SeriesSum(Column(ganha_df_filtered, "Valor"), 0)[1]
            ELSE Rat(0, 1)
        win_rate ==
            IF total_opportunities > 0
            THEN Rat(Len(ganha_df_filtered) * 100, total_opportunities)
            ELSE Rat(0, 1)
    IN  << [label |-> "Total Oportunidades Unicas", value |-> ToDigits(total_opportunities)],
           [label |-> "Valor Total Ganho",
            value |-> Chars_RS \o FormatFixed(total_won_value, 2, TRUE)],
           [label |-> "Taxa de Sucesso",
            value |-> FormatFixed(win_rate, 2, FALSE) \o << "%" >>] >>

InitBothKpis ==
    /\ IdleCurrency
    /\ IdleIdent
    /\ IdleFormat
    /\ IdleDates
    /\ IdleLoad
    /\ IdleCache
    /\ IdleNumber
    /\ IdlePage
    /\ kpi_pc = "input"
    /\ kpi_out = << >>
    /\ app_pc = "input"
    /\ app_out = Null
    /\ kpi_table \in [has_prob : BOOLEAN, rows : KpiTablesUpTo(MaxKpiRows)]

AppKpis ==
    /\ app_pc = "input"
    /\ app_out' = Some(app_kpis(kpi_table))
    /\ app_pc' = "done"
    /\ UNCHANGED << cur_vars, id_vars, fmt_vars, dt_vars, kpi_vars, load_vars,
                    cache_vars, num_vars, page_vars >>

NextBothKpis == RenderKpis \/ AppKpis

SpecBothKpis == InitBothKpis /\ [][NextBothKpis]_vars

-----------------------------------------------------------------------------
(* One browser session on the dashboard: app.py (login, logout, its own     *)
(* load_data) and the two pages guarded by require_auth, which read through  *)
(* load_datasets. st.cache_data and st.cache_resource belong to the process. *)
(* A run of a script is one step; page_pc names the run that is pending:     *)
(* "rerun" (navigation, any widget, st.rerun of login and logout),           *)
(* "press_refresh", "press_login", "press_logout" (the run a click starts,   *)
(* in which that button reads True) and "refresh" (the st.rerun of the       *)
(* refresh handler).                                                         *)

MaxPageCalls == 6

Pages == {"app", "Painel_Geral", "Relatorio"}

PendingRuns == {"rerun", "refresh", "press_refresh", "press_login", "press_logout"}

\* core/auth.py require_auth, init_auth_state included: the flag as the
\* session holds it afterwards, and whether st.stop() ended the run.
require_auth_NoStop(s) ==
    [session |-> IF IsNull(s) THEN Some(FALSE) ELSE s, stopped |-> FALSE]

require_auth(s) ==
    LET flag == IF IsNull(s) THEN FALSE ELSE s[1]
    IN  [session |-> Some(flag), stopped |-> ~flag]

\* get_gspread_client through st.cache_resource: the entry, once there, is
\* what every later call returns, a None client included. ok: the
\* credentials are read and accepted at this time.
get_gspread_client(entry, ok) ==
    IF IsNull(entry) THEN [client_ok |-> ok, resource |-> Some(ok)]
    ELSE [client_ok |-> entry[1], resource |-> entry]

\* What a call that missed the cache returns and stores: the tables of the
\* body and the time of the call.
Stored(out, now) ==
    [df |-> out.df, df_timeline |-> out.df_timeline, path |-> out.path,
     cache |-> Some([df |-> out.df, df_timeline |-> out.df_timeline, at |-> now]),
     fetched |-> TRUE]

\* What a call served from the cache returns.
Served(entry) ==
    [df |-> entry[1].df, df_timeline |-> entry[1].df_timeline, path |-> "cached",
     cache |-> entry, fetched |-> FALSE]

\* load_datasets() through st.cache_data(ttl=900) and its client through
\* st.cache_resource: the result of the call, and the entry of the client.
CachedLoadDatasets(entry, res, ok, cols, all_rows, now) ==
    IF ~IsNull(entry) /\ Fresh("load_datasets", entry[1].at, now)
    THEN [result |-> Served(entry), resource |-> res]
    ELSE [result |-> Stored(load_datasets(get_gspread_client(res, ok).client_ok, ok,
                                          cols, all_rows, now), now),
          resource |-> get_gspread_client(res, ok).resource]

\* load_data(gc) of app.py through its bare st.cache_data; gc is made anew
\* by every run of the script and is not part of the cache key.
CachedLoadData(entry, ok, cols, all_rows, now) ==
    IF ~IsNull(entry) /\ Fresh("load_data", entry[1].at, now)
    THEN Served(entry)
    ELSE Stored(load_data(ok, ok, cols, all_rows, now), now)

\* The refresh handler that triggers the rerun and clears nothing.
refresh_button_NoClear(p, entry, app_entry, res) ==
    [cache |-> entry, app_cache |-> app_entry, resource |-> res]

\* The refresh handlers: st.cache_data.clear() empties the entries of every
\* cached function; the page clears st.cache_resource too, app.py does not.
refresh_button(p, entry, app_entry, res) ==
    [cache |-> Null, app_cache |-> Null,
     resource |-> IF p = "Painel_Geral" THEN Null ELSE res]

\* What a run leaves when st.stop() of require_auth ends it: nothing is
\* loaded and only the warning is displayed.
Stopped(a, entry, app_entry, res) ==
    [session |-> a.session, cache |-> entry, app_cache |-> app_entry, resource |-> res,
     called |-> FALSE, fetched |-> FALSE, df |-> << >>, df_timeline |-> << >>,
     path |-> "none", view |-> "stopped", button |-> FALSE, pc |-> "wait"]

\* What a run that called its loader leaves: ld is the result of the call,
\* entry, app_entry and res the caches as the run leaves them.
Ran(sess, ld, entry, app_entry, res, view_, button_, pc_) ==
    [session |-> sess, cache |-> entry, app_cache |-> app_entry, resource |-> res,
     called |-> TRUE, fetched |-> ld.fetched, df |-> ld.df,
     df_timeline |-> ld.df_timeline, path |-> ld.path,
     view |-> view_, button |-> button_, pc |-> pc_]

\* What the run of a refresh handler leaves: r is what the handler made of
\* the caches; st.success is displayed and st.rerun() ends the run.
Cleared(sess, ld, r) ==
    Ran(sess, ld, r.cache, r.app_cache, r.resource, "refreshing", TRUE, "refresh")

\* pages/1_Painel_Geral.py main after load_datasets: the return on an empty
\* table, then get_filters, whose first widget is the refresh button. ev is
\* the pending run, c the call of load_datasets.
Painel_Geral_render(ev, sess, c, app_entry) ==
    IF c.result.df = << >>
    THEN Ran(sess, c.result, c.result.cache, app_entry, c.resource,
             "unavailable", FALSE, "wait")
    ELSE IF ev = "press_refresh"
    THEN Cleared(sess, c.result,
                 refresh_button("Painel_Geral", c.result.cache, app_entry, c.resource))
    ELSE Ran(sess, c.result, c.result.cache, app_entry, c.resource,
             "dashboard", TRUE, "wait")

\* pages/1_Painel_Geral.py main: require_auth, then load_datasets.
Painel_Geral_main(ev, s, entry, app_entry, res, ok, cols, all_rows, now) ==
    IF require_auth(s).stopped THEN Stopped(require_auth(s), entry, app_entry, res)
    ELSE Painel_Geral_render(
             ev, require_auth(s).session,
             CachedLoadDatasets(entry, res, ok, cols, all_rows, now), app_entry)

\* pages/2_Relatorio_de_Oportunidade.py main after load_datasets: it has no
\* refresh button.
Relatorio_render(sess, c, app_entry) ==
    Ran(sess, c.result, c.result.cache, app_entry, c.resource,
        IF c.result.df = << >> \/ c.result.df_timeline = << >>
        THEN "unavailable" ELSE "report",
        FALSE, "wait")

Relatorio_main(ev, s, entry, app_entry, res, ok, cols, all_rows, now) ==
    IF require_auth(s).stopped THEN Stopped(require_auth(s), entry, app_entry, res)
    ELSE Relatorio_render(require_auth(s).session,
                          CachedLoadDatasets(entry, res, ok, cols, all_rows, now),
                          app_entry)

\* app.py after load_data(gc): the session flag, the logout button, the
\* refresh button and the login form. flag is the session's flag once
\* initialised, ld the call of load_data.
app_render(ev, flag, ld, entry, res) ==
    IF flag
    THEN IF ev = "press_logout"
         THEN Ran(Some(FALSE), ld, entry, ld.cache, res, "login", FALSE, "rerun")
         ELSE IF ev = "press_refresh"
         THEN Cleared(Some(TRUE), ld, refresh_button("app", entry, ld.cache, res))
         ELSE Ran(Some(TRUE), ld, entry, ld.cache, res, "home", TRUE, "wait")
    ELSE IF ev = "press_login"
         THEN Ran(Some(TRUE), ld, entry, ld.cache, res, "login", FALSE, "rerun")
         ELSE Ran(Some(FALSE), ld, entry, ld.cache, res, "login", FALSE, "wait")

\* app.py: the client and load_data(gc) at module level, then the rest.
app_script(ev, s, entry, app_entry, res, ok, cols, all_rows, now) ==
    app_render(ev, IF IsNull(s) THEN FALSE ELSE s[1],
               CachedLoadData(app_entry, ok, cols, all_rows, now), entry, res)

RunScript(p, ev, s, entry, app_entry, res, ok, cols, all_rows, now) ==
    IF p = "Painel_Geral"
    THEN Painel_Geral_main(ev, s, entry, app_entry, res, ok, cols, all_rows, now)
    ELSE IF p = "Relatorio"
    THEN Relatorio_main(ev, s, entry, app_entry, res, ok, cols, all_rows, now)
    ELSE app_script(ev, s, entry, app_entry, res, ok, cols, all_rows, now)

InitSession ==
    /\ IdleCurrency
    /\ IdleIdent
    /\ IdleFormat
    /\ IdleDates
    /\ IdleKpis
    /\ IdleNumber
    /\ IdleApp
    /\ loader = "load_datasets"
    /\ cache = Null
    /\ calls = 0
    /\ columns = AllColumns
    /\ sheet \in CacheSheets
    /\ clock = ClockStart
    /\ current_time = Null
    /\ df = << >>
    /\ df_timeline = << >>
    /\ load_pc = "start"
    /\ session = Null
    /\ resource = Null
    /\ app_cache = Null
    /\ reachable \in BOOLEAN
    /\ page \in Pages
    /\ view = "none"
    /\ button = FALSE
    /\ fetched = FALSE
    /\ page_pc = "rerun"

\* The credentials or Google Sheets stop answering, or answer again.
SourceChange ==
    /\ reachable' = ~reachable
    /\ UNCHANGED << session, resource, app_cache, page, view, button, fetched, page_pc,
                    cur_vars, id_vars, fmt_vars, dt_vars, kpi_vars, load_vars,
                    cache_vars, num_vars, app_vars >>

\* The user opens a page from the sidebar, or changes a widget of the page
\* displayed.
Navigate ==
    /\ page_pc = "wait"
    /\ page' \in Pages
    /\ page_pc' = "rerun"
    /\ UNCHANGED << session, resource, app_cache, reachable, view, button, fetched,
                    cur_vars, id_vars, fmt_vars, dt_vars, kpi_vars, load_vars,
                    cache_vars, num_vars, app_vars >>

\* The user clicks a button the last run rendered: the refresh button, the
\* login button with valid credentials, or the logout button.
Click ==
    /\ page_pc = "wait"
    /\ \/ button /\ page_pc' = "press_refresh"
       \/ page = "app" /\ view = "login" /\ page_pc' = "press_login"
       \/ page = "app" /\ view = "home" /\ page_pc' = "press_logout"
    /\ UNCHANGED << session, resource, app_cache, reachable, page, view, button,
                    fetched, cur_vars, id_vars, fmt_vars, dt_vars, kpi_vars,
                    load_vars, cache_vars, num_vars, app_vars >>

\* The pending run of the script of the page.
RunPage ==
    /\ page_pc \in PendingRuns
    /\ calls < MaxPageCalls
    /\ \E out \in {RunScript(page, page_pc, session, cache, app_cache, resource,
                             reachable, columns, sheet, clock)} :
          /\ session' = out.session
          /\ cache' = out.cache
          /\ app_cache' = out.app_cache
          /\ resource' = out.resource
          /\ view' = out.view
          /\ button' = out.button
          /\ fetched' = out.fetched
          /\ page_pc' = out.pc
          /\ IF out.called
             THEN /\ calls' = calls + 1
                  /\ loader' = IF page = "app" THEN "load_data" ELSE "load_datasets"
                  /\ df' = out.df
                  /\ df_timeline' = out.df_timeline
                  /\ load_pc' = out.path
                  /\ current_time' = IF out.fetched /\ out.path = "loaded"
                                     THEN Some(clock) ELSE current_time
             ELSE UNCHANGED << calls, loader, df, df_timeline, load_pc, current_time >>
    /\ UNCHANGED << reachable, page, columns, sheet, clock, cur_vars, id_vars,
                    fmt_vars, dt_vars, kpi_vars, num_vars, app_vars >>

NextSession == Elapse \/ EditSheet \/ SourceChange \/ Navigate \/ Click \/ RunPage

SpecSession == InitSession /\ [][NextSession]_vars

-----------------------------------------------------------------------------
(* Properties of normalize_currency (SpecCurrency) *)

Range(f) == {f[k] : k \in DOMAIN f}

\* cents / 100 in lowest decimal terms.
CentsAsNumber(cents) ==
    IF cents % 100 = 0 THEN [num |-> cents \div 100, den |-> 1]
    ELSE IF cents % 10 = 0 THEN [num |-> cents \div 10, den |-> 10]
    ELSE [num |-> cents, den |-> 100]

\* C1: every well-formed amount (optional R$, optional spaces, integer part
\* grouped by "." or not, decimal comma, two decimals) is normalized to the
\* number it denotes.
C1_WellFormedAmount ==
    (cur_pc = "done" /\ ~IsNull(cur_form)) =>
        cur_result = Some(CentsAsNumber(FormCents(cur_form[1])))

\* "R$ 1.234,56" was normalized to 1234.56.
C1_Witness ==
    /\ cur_pc = "done"
    /\ cur_entry = Some(<< "R", "$", " ", "1", ".", "2", "3", "4", ",", "5", "6" >>)
    /\ cur_result = Some([num |-> 123456, den |-> 100])

\* C2: an entry that is None, empty, or text in which a letter is mixed with
\* the digits is normalized to null, never to a number.
C2_MalformedIsNull ==
    (/\ cur_pc = "done"
     /\ \/ IsNull(cur_entry)
        \/ cur_entry = Some(<< >>)
        \/ (~IsNull(cur_entry) /\ "x" \in Range(cur_entry[1])))
    => IsNull(cur_result)

-----------------------------------------------------------------------------
(* Properties of _extract_oc_identifier (SpecIdent) *)

\* Whether s is a code and nothing else: OC or CTE in any letter case,
\* whitespace of the class ws, then digits.
IsBareCode(s, ws) ==
    \E n \in {Len(PrefixOC), Len(PrefixCTE)} :
        /\ n < Len(s)
        /\ UpperSeq(SubSeq(s, 1, n)) \in {PrefixOC, PrefixCTE}
        /\ \E j \in n..(Len(s) - 1) :
              /\ \A k \in (n + 1)..j : s[k] \in ws
              /\ \A k \in (j + 1)..Len(s) : s[k] \in Digits

\* C3: a code yields the same identifier whatever whitespace (spaces, tabs)
\* stands between its prefix and its digits, and the identifier holds no
\* whitespace.
C3_WhitespaceInsensitive ==
    (id_pc = "done" /\ ~IsNull(title) /\ IsBareCode(title[1], Whitespace)) =>
        /\ oc_id = _extract_oc_identifier(Some(KeepChars(title[1], Range(title[1]) \ Whitespace)))
        /\ ~IsNull(oc_id)
        /\ Range(oc_id[1]) \cap Whitespace = {}

\* C4: a code yields the same identifier whatever the letter case of its
\* prefix.
C4_CaseNormalized ==
    (id_pc = "done" /\ ~IsNull(title) /\ IsBareCode(title[1], {" "})) =>
        oc_id = _extract_oc_identifier(Some(UpperSeq(title[1])))

\* The codes of a title for one prefix: << i, e >> where the prefix stands at
\* i in any letter case, whitespace follows, and the digits that follow end
\* at e, the next character being no digit.
CodeSpans(s, prefix) ==
    {<< i, e >> \in (1..Len(s)) \X (1..Len(s)) :
        /\ i + Len(prefix) <= e
        /\ UpperSeq(SubSeq(s, i, i + Len(prefix) - 1)) = prefix
        /\ \E j \in (i + Len(prefix) - 1)..(e - 1) :
              /\ \A k \in (i + Len(prefix))..j : s[k] \in Whitespace
              /\ \A k \in (j + 1)..e : s[k] \in Digits
        /\ (e < Len(s) => s[e + 1] \notin Digits)}

\* A code or an identifier with its whitespace dropped and its letters in
\* upper case: two texts with the same CodeKey name the same code.
CodeKey(s) == UpperSeq(SelectSeq(s, LAMBDA c : c \notin Whitespace))

\* The leftmost code of a set of spans.
FirstCode(s, spans) ==
    LET sp == CHOOSE x \in spans : \A y \in spans : x[1] <= y[1]
    IN  SubSeq(s, sp[1], sp[2])

\* Whether id is the identifier of the first code among spans.
IsFirstCode(id, s, spans) ==
    /\ ~IsNull(id)
    /\ CodeKey(id[1]) = CodeKey(FirstCode(s, spans))

\* C5: a title with an OC code yields its first OC code whatever CTE code it
\* also holds and wherever; a title with CTE codes only yields its first CTE
\* code; a title with neither, or no string, yields null.
C5_PatternPriority ==
    id_pc = "done" =>
        IF IsNull(title) THEN IsNull(oc_id)
        ELSE LET oc  == CodeSpans(title[1], PrefixOC)
                 cte == CodeSpans(title[1], PrefixCTE)
             IN  IF oc # {} THEN IsFirstCode(oc_id, title[1], oc)
                 ELSE IF cte # {} THEN IsFirstCode(oc_id, title[1], cte)
                 ELSE IsNull(oc_id)

\* "CTE2OC1": both codes, the CTE code first, and the OC code is returned.
C5_Witness ==
    /\ id_pc = "done"
    /\ title = Some(<< "C", "T", "E", "2", "O", "C", "1" >>)
    /\ oc_id = Some(<< "O", "C", "1" >>)

-----------------------------------------------------------------------------
(* Properties of load_datasets (Spec) *)

\* The run read the sheet: it returned the tables or raised while deriving.
ReadSheet == load_pc \in {"loaded", "transform_failed"}

\* C6: the timeline holds exactly one row for each normalized row with an
\* identifier and an open timestamp and no other row, and every row of the
\* sheet that was read, with or without them, is in the normalized table.
C6_TimelineRows ==
    ReadSheet =>
        /\ \A i \in DOMAIN sheet :
              Cardinality({k \in DOMAIN df : df[k].idx = i}) = 1
        /\ \A k \in DOMAIN df :
              Cardinality({j \in DOMAIN df_timeline : df_timeline[j].idx = df[k].idx})
                = IF ~IsNull(df[k].OC_Identifier) /\ ~IsNull(df[k].abertura)
                  THEN 1 ELSE 0
        /\ \A j \in DOMAIN df_timeline :
              \E k \in DOMAIN df : df[k].idx = df_timeline[j].idx

\* C7: a timeline row with a close timestamp has Time_in_Stage = close - open,
\* whatever the time of the run.
C7_ClosedDuration ==
    load_pc = "loaded" =>
        \A j \in DOMAIN df_timeline :
            LET src == sheet[df_timeline[j].idx]
            IN  src.fechamento.form = "datetime" =>
                  df_timeline[j].Time_in_Stage
                    = Some(src.fechamento.secs - src.abertura.secs)

\* A closed row of 25.5 hours, loaded after the clock has advanced.
C7_Witness ==
    /\ load_pc = "loaded"
    /\ clock > ClockStart
    /\ \E j \in DOMAIN df_timeline :
          /\ ~IsNull(df_timeline[j].fechamento)
          /\ df_timeline[j].Time_in_Stage = Some(91800)

\* C8: every timeline row without a close timestamp has Time_in_Stage =
\* run timestamp - open for the one timestamp of the run, so two such rows
\* differ in Time_in_Stage by the difference of their open timestamps.
C8_OneRunTimestamp ==
    load_pc = "loaded" =>
        /\ ~IsNull(current_time)
        /\ \A j \in DOMAIN df_timeline :
              LET src == sheet[df_timeline[j].idx]
              IN  src.fechamento.form # "datetime" =>
                    df_timeline[j].Time_in_Stage
                      = Some(current_time[1] - src.abertura.secs)
        /\ \A i, j \in DOMAIN df_timeline :
              LET a == sheet[df_timeline[i].idx]
                  b == sheet[df_timeline[j].idx]
              IN  (a.fechamento.form # "datetime" /\ b.fechamento.form # "datetime") =>
                    df_timeline[i].Time_in_Stage[1] - df_timeline[j].Time_in_Stage[1]
                      = b.abertura.secs - a.abertura.secs

\* Two still-open rows with different open timestamps in one timeline.
C8_Witness ==
    /\ load_pc = "loaded"
    /\ \E i, j \in DOMAIN df_timeline :
          /\ IsNull(df_timeline[i].fechamento)
          /\ IsNull(df_timeline[j].fechamento)
          /\ df_timeline[i].abertura # df_timeline[j].abertura

\* The whole minutes of a duration of secs seconds, toward zero.
TotalMinutes(secs) ==
    IF secs >= 0 THEN secs \div 60 ELSE 0 - ((0 - secs) \div 60)

\* Whether d, h, m split those minutes: whole days, then hours below 24, then
\* minutes below 60.
IsBreakdown(secs, d, h, m) ==
    /\ h \in 0..23
    /\ m \in 0..59
    /\ d * 1440 + h * 60 + m = TotalMinutes(secs)

DayRange(secs) ==
    LET n == (IF secs >= 0 THEN secs ELSE 0 - secs) \div (24 * SecPerHour) + 1
    IN  (0 - n)..n

\* Whether text is the breakdown of secs written with the three labels.
IsFormatted(text, secs, days_label, hours_label, minutes_label) ==
    \E d \in DayRange(secs), h \in 0..23 :
        LET m == TotalMinutes(secs) - d * 1440 - h * 60
        IN  /\ IsBreakdown(secs, d, h, m)
            /\ text = ToDigits(d) \o days_label \o ToDigits(h) \o hours_label
                      \o ToDigits(m) \o minutes_label

\* C9 as stated: the formatted duration of every timeline row reads
\* "{days}d {hours}h {minutes}m".
C9_ShortLabels ==
    load_pc = "loaded" =>
        \A j \in DOMAIN df_timeline :
            IsFormatted(df_timeline[j].Tempo, df_timeline[j].Time_in_Stage[1],
                        << "d", " " >>, << "h", " " >>, << "m" >>)

\* C9 amended: the formatted duration of every timeline row reads
\* "{days} dias, {hours} horas, {minutes} minutos", of its Time_in_Stage.
C9_LongLabels ==
    load_pc = "loaded" =>
        \A j \in DOMAIN df_timeline :
            IsFormatted(df_timeline[j].Tempo, df_timeline[j].Time_in_Stage[1],
                        << " ", "d", "i", "a", "s", ",", " " >>,
                        << " ", "h", "o", "r", "a", "s", ",", " " >>,
                        << " ", "m", "i", "n", "u", "t", "o", "s" >>)

\* A row of 25.5 hours reads "1 dias, 1 horas, 30 minutos".
C9_Witness ==
    /\ load_pc = "loaded"
    /\ \E j \in DOMAIN df_timeline :
          /\ df_timeline[j].Time_in_Stage = Some(91800)
          /\ df_timeline[j].Tempo
               = << "1", " ", "d", "i", "a", "s", ",", " ",
                    "1", " ", "h", "o", "r", "a", "s", ",", " ",
                    "3", "0", " ", "m", "i", "n", "u", "t", "o", "s" >>

\* C11: format_time_in_stage gives "N/A" for a null duration and for no
\* other; no timeline row has a null Time_in_Stage, so the formatted duration
\* of a timeline row is never "N/A".
C11_NeverNA ==
    /\ format_time_in_stage(Null) = Chars_NA
    /\ \A j \in DOMAIN df_timeline :
          /\ ~IsNull(df_timeline[j].Time_in_Stage)
          /\ format_time_in_stage(df_timeline[j].Time_in_Stage) # Chars_NA
          /\ df_timeline[j].Tempo # Chars_NA

\* A timeline row with no close date, measured to the run's current_time.
C11_Witness ==
    /\ load_pc = "loaded"
    /\ \E j \in DOMAIN df_timeline :
          /\ IsNull(df_timeline[j].fechamento)
          /\ ~IsNull(df_timeline[j].Time_in_Stage)
          /\ df_timeline[j].Tempo # Chars_NA

\* C12: a row whose 'Data de abertura' or 'Data fechamento' is empty or
\* malformed does not abort the run: it is in the normalized table, with a
\* null timestamp for that cell.
C12_TolerantDates ==
    ReadSheet =>
        \A i \in DOMAIN sheet :
            /\ sheet[i].abertura.form # "datetime" =>
                  \E k \in DOMAIN df : df[k].idx = i /\ IsNull(df[k].abertura)
            /\ sheet[i].fechamento.form # "datetime" =>
                  \E k \in DOMAIN df : df[k].idx = i /\ IsNull(df[k].fechamento)

\* C14: a run with no client, or whose opening or reading of the sheet
\* raises, returns two empty tables; so does a run whose derivation raises.
\* No run ends with an exception for the caller.
C14_FailuresContained ==
    /\ load_pc # "raised"
    /\ load_pc \in {"no_client", "read_failed", "transform_failed"} =>
          (df = << >> /\ df_timeline = << >>)

\* A sheet with rows whose read raised: the run returned two empty tables.
C14_Witness ==
    /\ load_pc = "read_failed"
    /\ sheet # << >>
    /\ df = << >>
    /\ df_timeline = << >>

\* C18: the timeline is in the order of OC_Identifier, rows of one
\* identifier in the order of their open timestamps, and rows of one
\* identifier and one open timestamp in their order in the sheet.
C18_TimelineOrder ==
    load_pc = "loaded" =>
        \A j, k \in DOMAIN df_timeline :
            j < k =>
                LET a == df_timeline[j]
                    b == df_timeline[k]
                IN  \/ StrLess(a.OC_Identifier[1], b.OC_Identifier[1])
                    \/ /\ a.OC_Identifier = b.OC_Identifier
                       /\ a.abertura[1] < b.abertura[1]
                    \/ /\ a.OC_Identifier = b.OC_Identifier
                       /\ a.abertura = b.abertura
                       /\ a.idx < b.idx

\* Two rows of one identifier and one open timestamp that differ in their
\* close date, in a loaded timeline.
C18_Witness ==
    /\ load_pc = "loaded"
    /\ \E j, k \in DOMAIN df_timeline :
          /\ j < k
          /\ df_timeline[j].OC_Identifier = df_timeline[k].OC_Identifier
          /\ df_timeline[j].abertura = df_timeline[k].abertura
          /\ df_timeline[j].fechamento # df_timeline[k].fechamento

\* C19: a run that loads the sheet a previous run loaded returns the
\* normalized table and the timeline that run returned, whatever the clock
\* reads at each of the two runs.
C19_PureFunction ==
    [][(/\ load_pc = "loaded"
        /\ load_pc' = "loaded"
        /\ sheet' = sheet
        /\ columns' = columns)
       => (df' = df /\ df_timeline' = df_timeline)]_vars

\* The values the calendar features of the normalized table take where
\* their date is null: the hour of day and the month-and-year of a null
\* open date, the month-and-year of a null close date (Null: left null).
NullDateFeatures ==
    {Some(df[k].Hour_of_Day_Abertura) : k \in {j \in DOMAIN df : IsNull(df[j].abertura)}}
    \cup {df[k].MonthYear_Abertura : k \in {j \in DOMAIN df : IsNull(df[j].abertura)}}
    \cup {df[k].MonthYear_Fechamento : k \in {j \in DOMAIN df : IsNull(df[j].fechamento)}}

\* C20: the calendar features derived from a null date all carry one and the
\* same sentinel, and none is left null.
C20_OneSentinel ==
    load_pc = "loaded" =>
        /\ Null \notin NullDateFeatures
        /\ Cardinality(NullDateFeatures) <= 1

-----------------------------------------------------------------------------
(* Properties of load_datasets over incomplete headers (SpecColumns) *)

\* The columns needed neither for the identifier nor for the open timestamp.
OptionalColumns == value_cols \cup {"Prob %", "Estagio", "Data fechamento"}

\* Whether some row of the sheet has a code in its title and an open date.
HasTimelineRow ==
    \E i \in DOMAIN sheet :
        /\ ~IsNull(_extract_oc_identifier(Some(sheet[i].Titulo)))
        /\ sheet[i].abertura.form = "datetime"

\* C15: a run that read a sheet whose header lacks optional columns only
\* (and that has a row for the timeline, which the full header would load)
\* returns the normalized table with every row of the sheet, not two empty
\* tables.
C15_MissingOptionalColumn ==
    (/\ ReadSheet
     /\ columns # AllColumns
     /\ AllColumns \ columns \subseteq OptionalColumns
     /\ HasTimelineRow)
    => /\ load_pc = "loaded"
       /\ \A i \in DOMAIN sheet : \E k \in DOMAIN df : df[k].idx = i

-----------------------------------------------------------------------------
(* Properties of the cached loader (SpecCache) *)

\* C16: the cached dataset has the freshness interval ttl. A call of the
\* loader less than ttl after the fetch of the cached entry returns the
\* cached tables and fetches nothing; a call with no entry, or ttl or more
\* after its fetch, runs the body on the sheet as it is now, returns the
\* tables of that run and stores them with the time of the call.
C16_FreshnessInterval ==
    [][calls' = calls + 1 =>
          IF ~IsNull(cache) /\ clock - cache[1].at < ttl
          THEN /\ cache' = cache
               /\ df' = cache[1].df
               /\ df_timeline' = cache[1].df_timeline
          ELSE /\ cache' = Some([df |-> df', df_timeline |-> df_timeline',
                                 at |-> clock])
               /\ \E client_ok \in BOOLEAN, read_ok \in BOOLEAN :
                     \E out \in {LoaderBody(loader, client_ok, read_ok, columns, sheet, clock)} :
                         df' = out.df /\ df_timeline' = out.df_timeline]_vars

-----------------------------------------------------------------------------
(* Properties of render_kpis (SpecKpis) *)

\* The displayed value of the card with a label.
Shown(label) ==
    LET k == CHOOSE j \in DOMAIN kpi_out : kpi_out[j].label = label
    IN  kpi_out[k].value

\* The monetary inputs of the three sums: the won values of the rows that
\* are 'Ganha', 'Valor' of the rows neither 'Ganha' nor 'Perdida', and
\* 'Valor' times 'Prob %' / 100 of every row.
WonInputs == WonValues(SelectSeq(kpi_table.rows, LAMBDA r : r.Estado = "Ganha"))

OpenInputs ==
    Column(SelectSeq(kpi_table.rows, LAMBDA r : r.Estado \notin {"Ganha", "Perdida"}),
           "Valor")

ForecastInputs == Forecast(kpi_table.rows)

\* What the claim asks of one sum: with some input not null, the card shows
\* the total of the inputs that are not null; with inputs that are all null,
\* it shows something else than the card of a total of zero.
SumCard(label, inputs) ==
    IF \E k \in DOMAIN inputs : ~IsNull(inputs[k])
    THEN Shown(label) = format_currency(SeriesSum(inputs, 0))
    ELSE inputs # << >> => Shown(label) # format_currency(Some(Rat(0, 1)))

\* C17: in the won, open and forecast sums a null monetary value adds
\* nothing, and a sum whose inputs are all null is shown as no data, not as
\* the total zero.
C17_NoDataNotZero ==
    kpi_pc = "done" =>
        /\ SumCard("Valor Total Ganho", WonInputs)
        /\ SumCard("Valor em Aberto", OpenInputs)
        /\ (kpi_table.has_prob => SumCard("Valor Previsto (Prob %)", ForecastInputs))

-----------------------------------------------------------------------------
(* Properties of pd.to_datetime with the format of the pipeline (SpecDates) *)

\* Whether a form names a day of the calendar.
IsCalendarDay(f) == f.d <= DaysInMonth(f.y, f.m)

\* C13: a well-formed day/month/year text without a time of day is parsed
\* to the timestamp of that day at 00:00:00, not to null.
C13_TimeOptional ==
    (/\ date_pc = "done"
     /\ ~IsNull(date_form)
     /\ date_form[1].kind = "date"
     /\ IsCalendarDay(date_form[1]))
    => date_out = Some(Timestamp(date_form[1].y, date_form[1].m, date_form[1].d, 0, 0, 0))

-----------------------------------------------------------------------------
(* Properties of format_time_in_stage (SpecFormat) *)

\* C10: for a non-negative duration the text holds days, hours and minutes
\* with M = floor(hours * 60) = days * 1440 + hours * 60 + minutes,
\* 0 <= hours < 24 and 0 <= minutes < 60: nothing is rounded up.
C10_FloorBreakdown ==
    (fmt_pc = "done" /\ ~IsNull(fmt_hours) /\ fmt_hours[1] >= 0) =>
        \E M \in (fmt_hours[1] \div 60 - 1)..(fmt_hours[1] \div 60 + 1) :
            /\ M * 60 <= fmt_hours[1]
            /\ fmt_hours[1] < (M + 1) * 60
            /\ \E d \in 0..(M \div 1440 + 1), h \in 0..23 :
                  LET m == M - d * 1440 - h * 60
                  IN  /\ m \in 0..59
                      /\ fmt_out = ToDigits(d) \o Chars_dias \o ToDigits(h)
                                   \o Chars_horas \o ToDigits(m) \o Chars_minutos

\* 24 hours read "1 dias, 0 horas, 0 minutos".
C10_Witness ==
    /\ fmt_pc = "done"
    /\ fmt_hours = Some(24 * SecPerHour)
    /\ fmt_out = << "1" >> \o Chars_dias \o << "0" >> \o Chars_horas
                 \o << "0" >> \o Chars_minutos


-----------------------------------------------------------------------------
(* Properties of safe_percentage and format_currency (SpecNumber) *)

\* The digits of a string are all decimal digits, and there is at least one.
IsDigits(ds) == ds # << >> /\ \A k \in DOMAIN ds : ds[k] \in Digits

\* text is an optional "-", digits, the separator sep, exactly k digits and
\* the suffix.
IsFixedText(text, sep, k, suffix) ==
    LET neg == text # << >> /\ text[1] = "-"
        body == IF neg THEN Tail(text) ELSE text
        n == Len(body) - Len(suffix) - k - 1
    IN  /\ n >= 1
        /\ IsDigits(SubSeq(body, 1, n))
        /\ body[n + 1] = sep
        /\ IsDigits(SubSeq(body, n + 2, n + 1 + k))
        /\ SubSeq(body, n + 2 + k, Len(body)) = suffix

\* C21: safe_percentage renders every number with exactly one decimal, a
\* comma as decimal separator and a trailing "%", and a null value as "0,0%".
C21_CommaPercentage ==
    (num_pc = "done" /\ num_fn = "safe_percentage") =>
        IF IsNull(num_value) THEN num_text = << "0", ",", "0", "%" >>
        ELSE IsFixedText(num_text, ",", 1, << "%" >>)
\* The integer part of an amount as written with "." before every group of
\* three digits from the right, and no leading zero.
IsGroupedInt(ip) ==
    LET ds == KeepChars(ip, Digits)
    IN  ds # << >> /\ ip = Grouped(ToDigits(DigitsValue(ds)))

\* The cents written by text, "R$ " then an optional "-", a grouped integer
\* part, "," and two digits; Null when text is not of that shape.
WrittenCents(text) ==
    LET rest == SubSeq(text, 4, Len(text))
        neg == rest # << >> /\ rest[1] = "-"
        body == IF neg THEN Tail(rest) ELSE rest
        n == Len(body) - 3
    IN  IF /\ Len(text) >= 7
           /\ SubSeq(text, 1, 3) = << "R", "$", " " >>
           /\ n >= 1
           /\ IsGroupedInt(SubSeq(body, 1, n))
           /\ body[n + 1] = ","
           /\ IsDigits(SubSeq(body, n + 2, n + 3))
        THEN Some([neg |-> neg,
                   cents |-> DigitsValue(KeepChars(body, Digits))])
        ELSE Null

\* C22: format_currency renders every number as "R$ " followed by the amount
\* with two decimals, "." between groups of thousands and "," before the
\* decimals, the amount written being the number to the nearest cent and
\* the sign written exactly for a negative number; a null value is rendered
\* as "R$ 0,00".
C22_BrazilianCurrency ==
    (num_pc = "formatted" /\ num_fn = "format_currency") =>
        IF IsNull(num_value) THEN num_text = << "R", "$", " ", "0", ",", "0", "0" >>
        ELSE LET x == num_value[1]
                 w == WrittenCents(num_text)
             IN  /\ ~IsNull(w)
                 /\ w[1].neg = (x.num < 0)
                 /\ 2 * Abs(w[1].cents * x.den - Abs(x.num) * 100) <= x.den

\* 1234.56 has been rendered as "R$ 1.234,56".
C22_Witness ==
    /\ num_pc = "formatted"
    /\ num_fn = "format_currency"
    /\ num_value = Some(Rat(123456, 100))
    /\ num_text = << "R", "$", " ", "1", ".", "2", "3", "4", ",", "5", "6" >>
-----------------------------------------------------------------------------
(* normalize_currency after format_currency (SpecNumber) *)

\* C27: for every amount x that is not null and has at most two decimals,
\* normalize_currency applied to format_currency(x) yields x.
C27_RoundTrip ==
    (/\ num_pc = "done"
     /\ num_fn = "format_currency"
     /\ ~IsNull(num_value)
     /\ 100 % num_value[1].den = 0)
    => /\ ~IsNull(num_back)
       /\ num_back[1].num * num_value[1].den = num_value[1].num * num_back[1].den

\* -1234.56, written "R$ -1.234,56", has been read back.
C27_Witness ==
    /\ num_pc = "done"
    /\ num_fn = "format_currency"
    /\ num_value = Some(Rat(0 - 123456, 100))
    /\ num_text = << "R", "$", " ", "-", "1", ".", "2", "3", "4", ",", "5", "6" >>
    /\ num_back = Some([num |-> 0 - 123456, den |-> 100])
-----------------------------------------------------------------------------
(* The features and durations of the loaded tables (Spec) *)

StageGroups == {"qualification", "negotiation", "closing", "won", "lost", "other"}

\* The columns of the sheet and the features load_datasets derives from the
\* title and the dates.
TitleAndDateFeatures ==
    {"idx", "Titulo", "Estagio", "Valor", "Prob", "abertura", "fechamento",
     "OC_Identifier", "MonthYear_Abertura", "MonthYear_Fechamento",
     "Hour_of_Day_Abertura"}

\* C23: every row of the normalized table carries a stage-group feature, a
\* column derived from 'Estagio' whose value is one of the six groups.
C23_StageGroupFeature ==
    load_pc = "loaded" =>
        \A i \in DOMAIN df :
            \E c \in DOMAIN df[i] \ TitleAndDateFeatures : df[i][c] \in StageGroups

\* C26: every timeline row has Time_in_Stage >= 0 and its formatted duration
\* shows no negative number, whatever the open and close timestamps.
C26_NonNegativeDuration ==
    load_pc = "loaded" =>
        \A j \in DOMAIN df_timeline :
            /\ ~IsNull(df_timeline[j].Time_in_Stage)
            /\ df_timeline[j].Time_in_Stage[1] >= 0
            /\ \A k \in DOMAIN df_timeline[j].Tempo : df_timeline[j].Tempo[k] # "-"
-----------------------------------------------------------------------------
(* The two pipelines on one monetary entry (SpecVariants) *)

\* C28: for every raw string of a monetary column, load_data of app.py and
\* normalize_currency of load_datasets produce the same number, or both null.
C28_SameMoney ==
    (cur_pc = "done" /\ app_pc = "done") =>
        IF IsNull(cur_result) \/ IsNull(app_out) THEN cur_result = app_out
        ELSE cur_result[1].num * app_out[1].den = app_out[1].num * cur_result[1].den
-----------------------------------------------------------------------------
(* The success rate of both dashboards (SpecBothKpis) *)

\* The displayed value of the card with a label among cards.
CardOf(cards, label) ==
    LET k == CHOOSE j \in DOMAIN cards : cards[j].label = label
    IN  cards[k].value

\* The number a displayed percentage writes, with "," or "." before its
\* decimals (Null: not a number).
PercentShown(text) ==
    IF text = << >> \/ text[Len(text)] # "%" THEN Null
    ELSE ToNumeric(StrReplace(SubSeq(text, 1, Len(text) - 1), << "," >>, << "." >>))

\* The percentage is a number from 0 to 100, and 0 when no row of the table
\* has an identifier.
IsSuccessRate(text, table) ==
    LET p == PercentShown(text)
    IN  /\ ~IsNull(p)
        /\ p[1].num >= 0
        /\ p[1].num <= 100 * p[1].den
        /\ (\A k \in DOMAIN table.rows : IsNull(table.rows[k].OC_Identifier))
              => p[1].num = 0

\* C30: 'Taxa de Sucesso' lies between 0 and 100 percent for every filtered
\* table and is 0 when the table has no identified opportunity, in
\* render_kpis and in the Painel Geral section of app.py.
C30_SuccessRateRange ==
    /\ kpi_pc = "done" => IsSuccessRate(CardOf(kpi_out, "Taxa de Sucesso"), kpi_table)
    /\ app_pc = "done" => IsSuccessRate(CardOf(app_out[1], "Taxa de Sucesso"), kpi_table)
-----------------------------------------------------------------------------
(* Properties of the pages, their caches and the session (SpecSession) *)

GuardedPages == {"Painel_Geral", "Relatorio"}

\* A step that is a run of the script of the page.
RunStep == page_pc \in PendingRuns /\ page_pc' # page_pc

\* C24: the dashboard recovers from an ingestion failure. A render of the
\* Painel Geral page by an authenticated session, with the source reachable,
\* rows in the sheet and no fresh entry in the cache of load_datasets, fetches
\* and shows data, whatever failed before; and a render that shows no data
\* still renders the refresh button.
C24_RecoversFromFailure ==
    [][(RunStep /\ page = "Painel_Geral" /\ session = Some(TRUE))
       => /\ (/\ reachable
              /\ sheet # << >>
              /\ (IsNull(cache) \/ ~Fresh("load_datasets", cache[1].at, clock)))
             => (fetched' /\ df' # << >> /\ view' \in {"dashboard", "refreshing"})
          /\ view' = "unavailable" => button']_vars

\* The tables the loader of a page computes from the sheet as it is now.
TablesNow(p) ==
    LET out == LoaderBody(IF p = "app" THEN "load_data" ELSE "load_datasets",
                          TRUE, TRUE, columns, sheet, clock)
    IN  << out.df, out.df_timeline >>

C29_NoDataWithoutLogin ==
    [][(RunStep /\ page \in GuardedPages)
       => /\ session # Some(TRUE)
             => /\ session' = Some(FALSE)
                /\ view' = "stopped"
                /\ ~button'
                /\ ~fetched'
                /\ UNCHANGED << calls, cache, resource, df, df_timeline, load_pc >>
          /\ view' # "stopped" => session' = Some(TRUE)]_vars

\* A session with no flag has opened the Painel Geral page: the run was
\* stopped, the flag is false and the loader was never called.
C29_Witness ==
    /\ page = "Painel_Geral"
    /\ page_pc = "wait"
    /\ view = "stopped"
    /\ session = Some(FALSE)
    /\ calls = 0
    /\ IsNull(cache)
====
